---- MODULE Spec2Model ----
(***************************************************************************)
(* Entity-resolution and incremental graph-ingestion core of the UHNW      *)
(* knowledge-graph loaders:                                                *)
(*   - src/Neo4j/load_graph_v_5.py: person/company registries with fuzzy   *)
(*     matching, and the MERGE upserts into the graph store;               *)
(*   - src/WikiData/Data/wikidata/process_wd_full_clean_v6.py and          *)
(*     src/WikiData/process_wd_full_clean.py: the Wikidata ETL with its    *)
(*     crawl frontier ("seen") and its family-edge consolidation.          *)
(*                                                                         *)
(* Strings are sequences of one-character tokens, so that slug() and the   *)
(* two string metrics are computed, character by character, as the code    *)
(* and the rapidfuzz library compute them.                                 *)
(***************************************************************************)
EXTENDS Integers, Sequences, FiniteSets, TLC

(***************************************************************************)
(* Bounds of the model, and the program's constants.                       *)
(***************************************************************************)
\* number of distinct external identifiers (Wikidata QIDs)
NumQ == 2
\* number of ids uuid4() hands out in one behaviour
MaxUuid == 3
\* number of registry calls in one behaviour of the registry on its own
MaxCalls == 3

\* load_graph_v_5.py:48-49
FUZZ_THRESHOLD == 93
LEV_DIST == 2

Max(a, b) == IF a >= b THEN a ELSE b
Min(a, b) == IF a <= b THEN a ELSE b

(***************************************************************************)
(* Characters and names.                                                   *)
(***************************************************************************)
UpperSeq == << "A","B","C","D","E","F","G","H","I","J","K","L","M",
               "N","O","P","Q","R","S","T","U","V","W","X","Y","Z" >>
LowerSeq == << "a","b","c","d","e","f","g","h","i","j","k","l","m",
               "n","o","p","q","r","s","t","u","v","w","x","y","z" >>
Digits == {"0","1","2","3","4","5","6","7","8","9"}

\* str.lower() on one character; a character outside A-Z is left as it is
ToLower(c) ==
    IF \E i \in 1..26 : UpperSeq[i] = c
    THEN LowerSeq[CHOOSE i \in 1..26 : UpperSeq[i] = c]
    ELSE c

\* the complement of the class [^a-z0-9] of SLUG_RE
IsSlugChar(c) == (\E i \in 1..26 : LowerSeq[i] = c) \/ c \in Digits

\* SLUG_RE.sub("_", t): every maximal run of characters outside a-z0-9
\* becomes one "_"
RECURSIVE SubRuns(_, _)
SubRuns(t, inRun) ==
    IF t = << >> THEN << >>
    ELSE IF IsSlugChar(Head(t)) THEN << Head(t) >> \o SubRuns(Tail(t), FALSE)
    ELSE IF inRun THEN SubRuns(Tail(t), TRUE)
    ELSE << "_" >> \o SubRuns(Tail(t), TRUE)

\* str.strip("_")
RECURSIVE LStrip(_)
LStrip(t) ==
    IF t # << >> /\ Head(t) = "_" THEN LStrip(Tail(t)) ELSE t

RECURSIVE RStrip(_)
RStrip(t) ==
    IF t # << >> /\ t[Len(t)] = "_" THEN RStrip(SubSeq(t, 1, Len(t) - 1)) ELSE t

Strip(t) == RStrip(LStrip(t))

\* slug(txt) = SLUG_RE.sub("_", txt.lower()).strip("_")
SlugOf(txt) == Strip(SubRuns([i \in 1..Len(txt) |-> ToLower(txt[i])], FALSE))

\* The raw names the sources mention.  Hanzi is a name written with one
\* non-Latin character (U+674E), which no class a-z0-9 holds.
AnnLee    == << "A","n","n"," ","L","e","e" >>
AnnLeeVar == << " ","A","N","N"," "," ","L","E","E" >>
AnnLees   == << "A","n","n"," ","L","e","e","s" >>
AnLe      == << "A","n"," ","L","e" >>
Hanzi     == << "u674E" >>

Names == {AnnLee, AnnLeeVar, AnnLees, AnLe, Hanzi}
\* "no name": None, or the empty string, which `canonical or raw_name` and
\* `if extras` treat alike
NoName == << >>
\* slug, tabulated once over the names of the model
SlugTable == [n \in Names \cup {NoName} |-> SlugOf(n)]
slug(txt) == SlugTable[txt]
Slugs == {slug(n) : n \in Names}

(***************************************************************************)
(* The matcher: rapidfuzz's token_set_ratio and Levenshtein.distance.      *)
(***************************************************************************)
\* length of the longest common subsequence
LCSLen(a, b) ==
    LET f[i \in 0..Len(a), j \in 0..Len(b)] ==
            IF i = 0 \/ j = 0 THEN 0
            ELSE IF a[i] = b[j] THEN f[i - 1, j - 1] + 1
            ELSE Max(f[i - 1, j], f[i, j - 1])
    IN  f[Len(a), Len(b)]

\* Levenshtein distance, unit costs
LevDist(a, b) ==
    LET f[i \in 0..Len(a), j \in 0..Len(b)] ==
            IF i = 0 THEN j
            ELSE IF j = 0 THEN i
            ELSE Min(Min(f[i - 1, j] + 1, f[i, j - 1] + 1),
                     f[i - 1, j - 1] + (IF a[i] = b[j] THEN 0 ELSE 1))
    IN  f[Len(a), Len(b)]

\* A slug holds no white space, so it is one token (or none, when empty).
\* token_set_ratio returns 0 when either string is empty, 100 when the token
\* sets are equal, and otherwise the normalised Indel similarity of the two
\* tokens, 100 * 2 * LCS / (len a + len b); the floor is taken here, which
\* decides ">= FUZZ_THRESHOLD" as the exact quotient does.
RatioOf(a, b) ==
    IF a = << >> \/ b = << >> THEN 0
    ELSE IF a = b THEN 100
    ELSE (200 * LCSLen(a, b)) \div (Len(a) + Len(b))

\* both metrics, tabulated once over the slugs of the model
RatioTable == [a \in Slugs, b \in Slugs |-> RatioOf(a, b)]
LevTable == [a \in Slugs, b \in Slugs |-> LevDist(a, b)]

token_set_ratio(a, b) == RatioTable[a, b]
Levenshtein_distance(a, b) == LevTable[a, b]

(***************************************************************************)
(* Identifiers.  A QID is <<"Q", i>>; uuid4() is a counter, so that every  *)
(* generated id is new: <<"person", n>> and <<"company", n>>.              *)
(***************************************************************************)
Qid(i) == << "Q", i >>
Qids == {Qid(i) : i \in 1..NumQ}
\* qid = None
NoQid == << "none", 0 >>
\* uuid4() returning the same value in every process
PersonId_Same(n) == << "person", 0 >>
PersonId(n) == << "person", n >>
CompanyId(n) == << "company", n >>
NoId == << "none", 0 >>

(***************************************************************************)
(* Python dicts keep insertion order; d[k] = v on a key already present    *)
(* replaces the value where it stands.  A dict is a sequence of [k, v].    *)
(***************************************************************************)
DictHas(d, k) == \E i \in 1..Len(d) : d[i].k = k
DictIdx(d, k) == CHOOSE i \in 1..Len(d) : d[i].k = k
DictGet(d, k) == d[DictIdx(d, k)].v
DictPut(d, k, v) ==
    IF DictHas(d, k) THEN [d EXCEPT ![DictIdx(d, k)].v = v]
    ELSE Append(d, [k |-> k, v |-> v])

VARIABLES
    person_registry,    \* dict: slug -> PersonEntry [id, canonical, aliases, qid]
    company_registry,   \* dict: slug -> company id
    qid_registry,       \* dict: qid -> slug
    nextUuid,           \* the next value uuid4() returns
    last,               \* the last registry call: its arguments and its result
    nameIds,            \* every (slug, id) a call without qid has returned
    personNodes,        \* the store: (:Person) nodes
    companyNodes,       \* the store: (:Company) nodes
    roleEdges,          \* the store: [:HAS_ROLE_AT] relationships
    familyEdges,        \* the store: [:FAMILY] relationships
    mode,               \* "ingest": records arrive; "replay": the same records again;
                        \* "raised": an exception ended the work on a document
    log,                \* the records of the input so far
    pos,                \* the next record of the log to ingest again
    snap,               \* the store's keys when the second pass began
    restarted,          \* the second pass runs in a new process, after preload
    calls,              \* registry calls made so far
    script,             \* which ETL script the deployment runs: "v6" or "v0"
    pc,                 \* where the ETL run stands
    stateFile,          \* the state file: seen, id -> resolved flag
    dataPersons,        \* the data file: ids of the persons
    dataEdges,          \* the data file: the list of edges, as a bag
    seen,               \* in memory: state['seen']
    pool,               \* in memory: ids of the person pool
    edges,              \* in memory: the accumulated edges, as a set
    final_edges,        \* in memory: the edges to persist, as a bag
    cur,                \* the item being processed
    rediscovered,       \* ids this run met as targets that the state file holds as resolved
    rowsDone,           \* result rows processed so far
    runs,               \* runs started so far
    bad,                \* the files that exist and cannot be parsed
    bak,                \* the files that were renamed aside, to .bak
    todo,               \* crawl: ids of the items of the input not processed yet
    seeds,              \* ids that have seeded an item of this run's input
    output,             \* what the run has written to stdout: the 'next' list, as a bag
    mem,                \* round trip: the persons' property values and the edges in memory
    disk,               \* round trip: the persons' property values and the edges in the data file
    trip,               \* round trip: "input", "saved", "loaded", "resaved"
    peer,               \* a second loader process on the same store: its registries
    annual              \* ingest_annual: processed_annual_reports and the loop over the files

regVars == << person_registry, company_registry, qid_registry, nextUuid >>
obsVars == << last, nameIds >>
storeVars == << personNodes, companyNodes, roleEdges, familyEdges >>
runVars == << mode, log, pos, snap, restarted, calls >>
etlVars == << script, pc, stateFile, dataPersons, dataEdges, seen, pool, edges,
              final_edges, cur, rediscovered, rowsDone, runs, bad, bak, output,
              seeds, todo >>
rtVars == << mem, disk, trip >>
wdVars == << etlVars, rtVars, peer, annual >>
loaderVars == << regVars, obsVars, storeVars, runVars >>

\* the result of _fuzzy_find_*: no key matched
NoKey == << "None" >>

\* _fuzzy_find_person: the first key, in the dict's order, whose ratio clears
\* the threshold
_fuzzy_find_person(reg, s) ==
    LET hits == {i \in 1..Len(reg) : token_set_ratio(reg[i].k, s) >= FUZZ_THRESHOLD}
    IN  IF hits = {} THEN NoKey
        ELSE reg[CHOOSE i \in hits : \A j \in hits : i <= j].k

\* _fuzzy_find_company: the ratio or the edit distance
_fuzzy_find_company(reg, s) ==
    LET hits == {i \in 1..Len(reg) :
                    \/ token_set_ratio(reg[i].k, s) >= FUZZ_THRESHOLD
                    \/ Levenshtein_distance(reg[i].k, s) <= LEV_DIST}
    IN  IF hits = {} THEN NoKey
        ELSE reg[CHOOSE i \in hits : \A j \in hits : i <= j].k

\* `if extras: entry['aliases'].update(extras)`; extras is a set of names here
WithExtras(entry, extras) == [entry EXCEPT !.aliases = @ \cup extras]

\* `if n not in entry['aliases'] and n != entry['canonical']: add(n)`
WithAlias(entry, n) ==
    IF n \notin entry.aliases /\ n # entry.canonical
    THEN [entry EXCEPT !.aliases = @ \cup {n}]
    ELSE entry

\* get_or_create_person, as a function of the registries: the registries
\* after the call, the id returned, the entry returned, and whether uuid4()
\* was called.
get_or_create_person(reg, qreg, uuid, raw_name, canonical, extras, qid) ==
    LET name == IF canonical # NoName THEN canonical ELSE raw_name
        s == slug(name)
    IN  IF qid # NoQid
        THEN IF DictHas(qreg, qid)
             THEN LET key == DictGet(qreg, qid)
                      entry == WithAlias(DictGet(reg, key), name)
                  IN  [reg |-> DictPut(reg, key, entry), qreg |-> qreg, uuid |-> uuid,
                       id |-> entry.id, entry |-> entry]
             ELSE LET entry == WithExtras([id |-> qid, canonical |-> name,
                                           aliases |-> {}, qid |-> qid], extras)
                  IN  [reg |-> DictPut(reg, s, entry), qreg |-> DictPut(qreg, qid, s),
                       uuid |-> uuid, id |-> qid, entry |-> entry]
        ELSE LET found == _fuzzy_find_person(reg, s)
                 key == IF found = NoKey THEN s ELSE found
                 base == IF found = NoKey
                         THEN [id |-> PersonId(uuid), canonical |-> name,
                               aliases |-> {}, qid |-> NoQid]
                         ELSE DictGet(reg, found)
                 entry == WithAlias(WithExtras(base, extras), raw_name)
             IN  [reg |-> DictPut(reg, key, entry), qreg |-> qreg,
                  uuid |-> IF found = NoKey THEN uuid + 1 ELSE uuid,
                  id |-> entry.id, entry |-> entry]

\* get_or_create_company
get_or_create_company(creg, uuid, raw_name) ==
    LET s == slug(raw_name)
        key == _fuzzy_find_company(creg, s)
    IN  IF key = NoKey
        THEN [creg |-> DictPut(creg, s, CompanyId(uuid)), uuid |-> uuid + 1,
              id |-> CompanyId(uuid)]
        ELSE [creg |-> creg, uuid |-> uuid, id |-> DictGet(creg, key)]

(***************************************************************************)
(* The graph store and the Cypher upserts.  A node or relationship is a    *)
(* record of its properties; a property that is null is absent.  The       *)
(* `updated` / `lastUpdated` stamps are left out: nothing reads them.      *)
(***************************************************************************)
NULL == "NULL"

\* --dry-run; off unless the command line sets it
DRY_RUN == FALSE

\* MERGE (p:Person {id:$id}) SET p.name, p.aliases, p.wikidata_qid, p.reference_*
MERGE_PERSON(nodes, id, name, alias, qid, source_type, source_file) ==
    LET props == [id |-> id, name |-> name, aliases |-> alias, wikidata_qid |-> qid,
                  reference_type |-> source_type, reference_file |-> source_file]
    IN  IF \E n \in nodes : n.id = id
        THEN {IF n.id = id THEN props ELSE n : n \in nodes}
        ELSE nodes \cup {props}

\* MERGE (c:Company {id:$id}) SET c.name, c.reference_*
MERGE_COMPANY(nodes, id, name, source_type, source_file) ==
    LET props == [id |-> id, name |-> name,
                  reference_type |-> source_type, reference_file |-> source_file]
    IN  IF \E n \in nodes : n.id = id
        THEN {IF n.id = id THEN props ELSE n : n \in nodes}
        ELSE nodes \cup {props}

\* coalesce(a, b): the first argument that is not null
coalesce(a, b) == IF a # NULL THEN a ELSE b

\* the ON MATCH branch with the provenance of the first write kept
RoleOnMatch_FirstSource(r, start, end, source_type, source_file) ==
    [r EXCEPT !.startDate = coalesce(start, r.startDate),
              !.endDate = coalesce(end, r.endDate),
              !.reference_type = coalesce(r.reference_type, source_type),
              !.reference_file = coalesce(r.reference_file, source_file)]

\* the ON MATCH branch of MERGE_ROLE
RoleOnMatch(r, start, end, source_type, source_file) ==
    [r EXCEPT !.startDate = coalesce(start, r.startDate),
              !.endDate = coalesce(end, r.endDate),
              !.reference_type = source_type,
              !.reference_file = source_file]

\* MERGE_ROLE with CREATE in place of MERGE: a new relationship on every
\* upsert.
MERGE_ROLE_Create(persons, companies, rels, pid, cid, role, start, end, source_type, source_file) ==
    IF ~ ((\E n \in persons : n.id = pid) /\ (\E n \in companies : n.id = cid))
    THEN rels
    ELSE rels \cup {[pid |-> pid, cid |-> cid, role |-> role,
                      startDate |-> start, endDate |-> end,
                      reference_type |-> source_type, reference_file |-> source_file]}

\* MATCH p, MATCH c, MERGE (p)-[r:HAS_ROLE_AT {role:$role}]->(c)
\* ON CREATE SET ... ON MATCH SET ...
MERGE_ROLE(persons, companies, rels, pid, cid, role, start, end, source_type, source_file) ==
    IF ~ ((\E n \in persons : n.id = pid) /\ (\E n \in companies : n.id = cid))
    THEN rels
    ELSE IF \E r \in rels : r.pid = pid /\ r.cid = cid /\ r.role = role
    THEN {IF r.pid = pid /\ r.cid = cid /\ r.role = role
          THEN RoleOnMatch(r, start, end, source_type, source_file)
          ELSE r : r \in rels}
    ELSE rels \cup {[pid |-> pid, cid |-> cid, role |-> role,
                      startDate |-> start, endDate |-> end,
                      reference_type |-> source_type, reference_file |-> source_file]}

\* MATCH a, MATCH b, MERGE (a)-[r:FAMILY {relation:$rel}]->(b) SET r.reference_*
MERGE_FAMILY(persons, rels, src, dst, rel, source_type, source_file) ==
    IF ~ ((\E n \in persons : n.id = src) /\ (\E n \in persons : n.id = dst))
    THEN rels
    ELSE IF \E r \in rels : r.src = src /\ r.dst = dst /\ r.relation = rel
    THEN {IF r.src = src /\ r.dst = dst /\ r.relation = rel
          THEN [r EXCEPT !.reference_type = source_type, !.reference_file = source_file]
          ELSE r : r \in rels}
    ELSE rels \cup {[src |-> src, dst |-> dst, relation |-> rel,
                      reference_type |-> source_type, reference_file |-> source_file]}

\* the write helpers: the store's part after the call
write_person(nodes, entry, source_type, source_file) ==
    IF DRY_RUN THEN nodes
    ELSE MERGE_PERSON(nodes, entry.id, entry.canonical, entry.aliases, entry.qid,
                      source_type, source_file)

write_company(nodes, cid, name, source_type, source_file) ==
    IF DRY_RUN THEN nodes
    ELSE MERGE_COMPANY(nodes, cid, name, source_type, source_file)

write_role(persons, companies, rels, pid, cid, role, start, end, source_type, source_file) ==
    IF DRY_RUN THEN rels
    ELSE MERGE_ROLE(persons, companies, rels, pid, cid, role, start, end,
                    source_type, source_file)

write_family(persons, rels, sid, did, rel, source_type, source_file) ==
    IF sid = did THEN rels
    ELSE IF DRY_RUN THEN rels
    ELSE MERGE_FAMILY(persons, rels, sid, did, rel, source_type, source_file)

vars == << regVars, obsVars, storeVars, runVars, wdVars >>

(***************************************************************************)
(* The state of a fresh process on an empty store.                         *)
(***************************************************************************)
NoCall == [op |-> "none", slug |-> NoKey, qid |-> NoQid, known |-> FALSE, ret |-> NoId]
NoSnap == [persons |-> {}, companies |-> {}, roles |-> {}, families |-> {}]

\* no second process has started
NoPeer == [started |-> FALSE, person_registry |-> << >>, qid_registry |-> << >>,
           company_registry |-> << >>, created |-> {}]

\* `limit is None`
NoLimit == -1

\* main() has not run on the annual-report directory
NoAnnual == [run |-> 0, processed_annual_reports |-> {}, files_to_process |-> << >>,
             processed_count |-> 0, limit |-> NoLimit, past |-> {}]

InitGraph ==
    /\ peer = NoPeer
    /\ annual = NoAnnual
    /\ person_registry = << >>
    /\ company_registry = << >>
    /\ qid_registry = << >>
    /\ nextUuid = 1
    /\ last = NoCall
    /\ nameIds = {}
    /\ personNodes = {}
    /\ companyNodes = {}
    /\ roleEdges = {}
    /\ familyEdges = {}
    /\ mode = "ingest"
    /\ log = << >>
    /\ pos = 1
    /\ snap = NoSnap
    /\ restarted = FALSE
    /\ calls = 0

\* no item of the input is being processed
NoItem == "none"
\* {'seen': {}}
EmptySeen == [q \in {} |-> FALSE]
\* a list of edges is kept as the bag of its elements: the edge -> how many
\* times the list holds it
NoEdges == [e \in {} |-> 0]

\* no person and no edge, in memory and in the data file
NoData == [persons |-> << >>, edges |-> {}]
NoFile == [persons |-> << >>, edges |-> NoEdges]

\* no round trip of the data file is in progress
NoRoundTrip ==
    /\ mem = NoData
    /\ disk = NoFile
    /\ trip = "input"

\* nothing has been written to stdout
NoOutput == [emitted |-> FALSE, next |-> NoEdges]

\* no ETL run is in progress, and neither file exists
IdleETL(s) ==
    /\ script = s
    /\ pc = "idle"
    /\ stateFile = EmptySeen
    /\ dataPersons = {}
    /\ dataEdges = NoEdges
    /\ seen = EmptySeen
    /\ pool = {}
    /\ edges = {}
    /\ final_edges = NoEdges
    /\ cur = NoItem
    /\ rediscovered = {}
    /\ rowsDone = 0
    /\ runs = 0
    /\ bad = {}
    /\ bak = {}
    /\ output = NoOutput
    /\ seeds = {}
    /\ todo = {}

InitLoader == InitGraph /\ IdleETL("v6") /\ NoRoundTrip

(***************************************************************************)
(* The registry on its own: any sequence of get_or_create_person and       *)
(* get_or_create_company calls in one process.                             *)
(***************************************************************************)
\* alias hints: none, or a list of one mention
ExtrasChoices == {{}} \cup {{n} : n \in Names}

CallPerson(raw_name, canonical, extras, qid) ==
    \E r \in {get_or_create_person(person_registry, qid_registry, nextUuid,
                                   raw_name, canonical, extras, qid)} :
    \E s \in {slug(IF canonical # NoName THEN canonical ELSE raw_name)} :
        /\ calls < MaxCalls
        /\ r.uuid <= MaxUuid + 1
        /\ calls' = calls + 1
        /\ person_registry' = r.reg
        /\ qid_registry' = r.qreg
        /\ nextUuid' = r.uuid
        /\ last' = [op |-> "person", slug |-> s, qid |-> qid,
                    known |-> (qid # NoQid /\ DictHas(qid_registry, qid)), ret |-> r.id]
        /\ nameIds' = IF qid = NoQid THEN nameIds \cup {<< s, r.id >>} ELSE nameIds
        /\ UNCHANGED << company_registry, storeVars, mode, log, pos, snap, restarted >>
        /\ UNCHANGED wdVars

CallCompany(raw_name) ==
    \E r \in {get_or_create_company(company_registry, nextUuid, raw_name)} :
        /\ calls < MaxCalls
        /\ r.uuid <= MaxUuid + 1
        /\ calls' = calls + 1
        /\ company_registry' = r.creg
        /\ nextUuid' = r.uuid
        /\ last' = [op |-> "company", slug |-> slug(raw_name), qid |-> NoQid,
                    known |-> FALSE, ret |-> r.id]
        /\ UNCHANGED << person_registry, qid_registry, nameIds, storeVars,
                       mode, log, pos, snap, restarted >>
        /\ UNCHANGED wdVars

NextRegistry ==
    \/ \E n \in Names, q \in Qids \cup {NoQid} : CallPerson(n, NoName, {}, q)
    \/ \E n \in Names, x \in ExtrasChoices : CallPerson(n, n, x, NoQid)
    \/ \E n \in Names : CallCompany(n)

SpecRegistry == InitLoader /\ [][NextRegistry]_vars

(***************************************************************************)
(* The write helpers on their own: any sequence of upserts, with the       *)
(* arguments the ingest functions can pass.                                *)
(***************************************************************************)
StorePersons == {Qid(1), PersonId(1)}
StoreCompanies == {CompanyId(1)}
Roles == {"CEO"}
Dates == {NULL, "2020", "2021"}
\* (source_type, source_file) of the ingest functions
Neo4jSource == << "neo4j_export", "export.json" >>
WikidataSource == << "wikidata", "data.json" >>
MasSource == << "MAS_csv", "mas.csv" >>
Sources == {WikidataSource, MasSource}
FamilyRelations == {"is spouse of"}

RoleKey(r) == << r.pid, r.cid, r.role >>
FamilyKey(r) == << r.src, r.dst, r.relation >>
NodeIds(nodes) == {n.id : n \in nodes}

Observed(op, matched) ==
    [op |-> op, slug |-> NoKey, qid |-> NoQid, known |-> matched, ret |-> NoId]

StoreWritePerson(id, name, src) ==
    /\ personNodes' = write_person(personNodes,
                         [id |-> id, canonical |-> name, aliases |-> {},
                          qid |-> IF id \in Qids THEN id ELSE NoQid], src[1], src[2])
    /\ last' = NoCall
    /\ UNCHANGED << regVars, nameIds, companyNodes, roleEdges, familyEdges, runVars >>
    /\ UNCHANGED wdVars

StoreWriteCompany(cid, name, src) ==
    /\ companyNodes' = write_company(companyNodes, cid, name, src[1], src[2])
    /\ last' = NoCall
    /\ UNCHANGED << regVars, nameIds, personNodes, roleEdges, familyEdges, runVars >>
    /\ UNCHANGED wdVars

StoreWriteRole(pid, cid, role, start, end, src) ==
    /\ roleEdges' = write_role(personNodes, companyNodes, roleEdges,
                               pid, cid, role, start, end, src[1], src[2])
    /\ last' = Observed("write_role", << pid, cid, role >> \in {RoleKey(r) : r \in roleEdges})
    /\ UNCHANGED << regVars, nameIds, personNodes, companyNodes, familyEdges, runVars >>
    /\ UNCHANGED wdVars

StoreWriteFamily(sid, did, rel, src) ==
    /\ familyEdges' = write_family(personNodes, familyEdges, sid, did, rel, src[1], src[2])
    /\ last' = NoCall
    /\ UNCHANGED << regVars, nameIds, personNodes, companyNodes, roleEdges, runVars >>
    /\ UNCHANGED wdVars

NextStore ==
    \/ \E id \in StorePersons, src \in Sources : StoreWritePerson(id, AnnLee, src)
    \/ \E cid \in StoreCompanies, src \in Sources : StoreWriteCompany(cid, AnLe, src)
    \/ \E pid \in StorePersons, cid \in StoreCompanies, role \in Roles,
          start \in Dates, end \in Dates, src \in Sources :
          StoreWriteRole(pid, cid, role, start, end, src)
    \/ \E sid \in StorePersons, did \in StorePersons, rel \in FamilyRelations,
          src \in Sources : StoreWriteFamily(sid, did, rel, src)

SpecStore == InitLoader /\ [][NextStore]_vars

\* the same upserts, observed with the key and the source they were given
Upserted(op, key, src, matched) ==
    [op |-> op, slug |-> NoKey, qid |-> NoQid, known |-> matched, ret |-> NoId,
     key |-> key, src |-> src]

UpsertPerson(id, name, src) ==
    /\ personNodes' = write_person(personNodes,
                         [id |-> id, canonical |-> name, aliases |-> {},
                          qid |-> IF id \in Qids THEN id ELSE NoQid], src[1], src[2])
    /\ last' = Upserted("write_person", id, src, id \in NodeIds(personNodes))
    /\ UNCHANGED << regVars, nameIds, companyNodes, roleEdges, familyEdges, runVars >>
    /\ UNCHANGED wdVars

UpsertCompany(cid, name, src) ==
    /\ companyNodes' = write_company(companyNodes, cid, name, src[1], src[2])
    /\ last' = Upserted("write_company", cid, src, cid \in NodeIds(companyNodes))
    /\ UNCHANGED << regVars, nameIds, personNodes, roleEdges, familyEdges, runVars >>
    /\ UNCHANGED wdVars

UpsertRole(pid, cid, role, start, end, src) ==
    /\ roleEdges' = write_role(personNodes, companyNodes, roleEdges,
                               pid, cid, role, start, end, src[1], src[2])
    /\ last' = Upserted("write_role", << pid, cid, role >>, src,
                        << pid, cid, role >> \in {RoleKey(r) : r \in roleEdges})
    /\ UNCHANGED << regVars, nameIds, personNodes, companyNodes, familyEdges, runVars >>
    /\ UNCHANGED wdVars

UpsertFamily(sid, did, rel, src) ==
    /\ familyEdges' = write_family(personNodes, familyEdges, sid, did, rel, src[1], src[2])
    /\ last' = Upserted("write_family", << sid, did, rel >>, src,
                        << sid, did, rel >> \in {FamilyKey(r) : r \in familyEdges})
    /\ UNCHANGED << regVars, nameIds, personNodes, companyNodes, roleEdges, runVars >>
    /\ UNCHANGED wdVars

NextUpserts ==
    \/ \E id \in StorePersons, src \in Sources : UpsertPerson(id, AnnLee, src)
    \/ \E cid \in StoreCompanies, src \in Sources : UpsertCompany(cid, AnLe, src)
    \/ \E pid \in StorePersons, cid \in StoreCompanies, role \in Roles,
          start \in {NULL, "2020"}, src \in Sources :
          UpsertRole(pid, cid, role, start, NULL, src)
    \/ \E sid \in StorePersons, did \in StorePersons, rel \in FamilyRelations,
          src \in Sources : UpsertFamily(sid, did, rel, src)

SpecUpserts == InitLoader /\ [][NextUpserts]_vars

(***************************************************************************)
(* The loader: the ingest functions, one source record at a time, and the  *)
(* start of a new process (preload_registries).  A record is              *)
(*   neo4j_export : one row of the Cypher export (n, m and maybe r)        *)
(*   wd_person    : pass 1 of ingest_wikidata, one person                  *)
(*   wd_edge      : pass 2, one edge                                       *)
(*   wd_business  : pass 3, one business role of a person                  *)
(*   mas          : one row of the MAS CSV                                 *)
(***************************************************************************)
\* number of records of the first pass
MaxLog == 3

LoaderPersons == {AnnLee, AnnLees, Hanzi}
LoaderCompanies == {AnnLee, AnnLees, AnLe}

Record(kind, pn, cn, rel, role, start, end, qid, src, dst, relType) ==
    [kind |-> kind, pn |-> pn, cn |-> cn, rel |-> rel, role |-> role,
     start |-> start, end |-> end, qid |-> qid, src |-> src, dst |-> dst,
     relType |-> relType]

\* the loop body of ingest_neo4j_query, for a record with n and m
ingest_neo4j_query(rec) ==
    \E p \in {get_or_create_person(person_registry, qid_registry, nextUuid,
                                   rec.pn, NoName, {}, NoQid)} :
    \E c \in {get_or_create_company(company_registry, p.uuid, rec.cn)} :
    \E persons \in {write_person(personNodes, p.entry, Neo4jSource[1], Neo4jSource[2])} :
    \E companies \in {write_company(companyNodes, c.id, rec.cn,
                                    Neo4jSource[1], Neo4jSource[2])} :
        /\ c.uuid <= MaxUuid + 1
        /\ person_registry' = p.reg
        /\ qid_registry' = p.qreg
        /\ company_registry' = c.creg
        /\ nextUuid' = c.uuid
        /\ personNodes' = persons
        /\ companyNodes' = companies
        /\ roleEdges' = IF rec.rel /\ p.id # c.id
                        THEN write_role(persons, companies, roleEdges, p.id, c.id,
                                        rec.role, rec.start, rec.end,
                                        Neo4jSource[1], Neo4jSource[2])
                        ELSE roleEdges
        /\ UNCHANGED familyEdges

\* pass 1 of ingest_wikidata, for a person with an id
ingest_wikidata_person(rec) ==
    \E p \in {get_or_create_person(person_registry, qid_registry, nextUuid,
                                   rec.pn, NoName, {}, rec.qid)} :
        /\ person_registry' = p.reg
        /\ qid_registry' = p.qreg
        /\ nextUuid' = p.uuid
        /\ personNodes' = write_person(personNodes, p.entry,
                                       WikidataSource[1], WikidataSource[2])
        /\ UNCHANGED << company_registry, companyNodes, roleEdges, familyEdges >>

\* pass 2 of ingest_wikidata, for an edge with seed, rel and relType
ingest_wikidata_edge(rec) ==
    /\ familyEdges' = IF rec.src = rec.dst THEN familyEdges
                      ELSE write_family(personNodes, familyEdges, rec.src, rec.dst,
                                        rec.relType, WikidataSource[1], WikidataSource[2])
    /\ UNCHANGED << regVars, personNodes, companyNodes, roleEdges >>

\* pass 3 of ingest_wikidata, for one business role of a person
ingest_wikidata_business(rec) ==
    \E c \in {get_or_create_company(company_registry, nextUuid, rec.cn)} :
    \E companies \in {write_company(companyNodes, c.id, rec.cn,
                                    WikidataSource[1], WikidataSource[2])} :
        /\ c.uuid <= MaxUuid + 1
        /\ company_registry' = c.creg
        /\ nextUuid' = c.uuid
        /\ companyNodes' = companies
        /\ roleEdges' = IF rec.qid # c.id
                        THEN write_role(personNodes, companies, roleEdges, rec.qid, c.id,
                                        rec.role, rec.start, rec.end,
                                        WikidataSource[1], WikidataSource[2])
                        ELSE roleEdges
        /\ UNCHANGED << person_registry, qid_registry, personNodes, familyEdges >>

\* the loop body of ingest_mas, for a row with a person and a company name
ingest_mas(rec) ==
    \E p \in {get_or_create_person(person_registry, qid_registry, nextUuid,
                                   rec.pn, NoName, {}, NoQid)} :
    \E c \in {get_or_create_company(company_registry, p.uuid, rec.cn)} :
    \E persons \in {write_person(personNodes, p.entry, MasSource[1], MasSource[2])} :
    \E companies \in {write_company(companyNodes, c.id, rec.cn,
                                    MasSource[1], MasSource[2])} :
        /\ c.uuid <= MaxUuid + 1
        /\ person_registry' = p.reg
        /\ qid_registry' = p.qreg
        /\ company_registry' = c.creg
        /\ nextUuid' = c.uuid
        /\ personNodes' = persons
        /\ companyNodes' = companies
        /\ roleEdges' = write_role(persons, companies, roleEdges, p.id, c.id,
                                   rec.role, NULL, NULL, MasSource[1], MasSource[2])
        /\ UNCHANGED familyEdges

ApplyRecord(rec) ==
    CASE rec.kind = "neo4j_export" -> ingest_neo4j_query(rec)
      [] rec.kind = "wd_person" -> ingest_wikidata_person(rec)
      [] rec.kind = "wd_edge" -> ingest_wikidata_edge(rec)
      [] rec.kind = "wd_business" -> ingest_wikidata_business(rec)
      [] rec.kind = "mas" -> ingest_mas(rec)

\* a record arrives for the first time
Arrive(rec) ==
    /\ Len(log) < MaxLog
    /\ ApplyRecord(rec)
    /\ log' = Append(log, rec)
    /\ UNCHANGED << obsVars, mode, pos, snap, restarted, calls >>
    /\ UNCHANGED wdVars

IngestNeo4jRecord ==
    \E pn \in LoaderPersons, cn \in LoaderCompanies, rel \in BOOLEAN :
        /\ mode = "ingest"
        /\ Arrive(Record("neo4j_export", pn, cn, rel, "CEO",
                         IF rel THEN "2020" ELSE NULL, NULL, NoQid, NoId, NoId, NULL))

IngestWikidataPerson ==
    \E pn \in LoaderPersons, q \in Qids :
        /\ mode = "ingest"
        /\ Arrive(Record("wd_person", pn, NoName, FALSE, NULL, NULL, NULL, q,
                         NoId, NoId, NULL))

IngestWikidataEdge ==
    \E s \in Qids, d \in Qids, rt \in FamilyRelations :
        /\ mode = "ingest"
        /\ Arrive(Record("wd_edge", NoName, NoName, FALSE, NULL, NULL, NULL, NoQid,
                         s, d, rt))

\* pass 3 runs over the persons pass 1 has written
IngestWikidataBusiness ==
    \E q \in Qids, cn \in LoaderCompanies :
        /\ mode = "ingest"
        /\ q \in NodeIds(personNodes)
        /\ Arrive(Record("wd_business", NoName, cn, TRUE, "CEO", NULL, NULL, q,
                         NoId, NoId, NULL))

IngestMasRow ==
    \E pn \in LoaderPersons, cn \in LoaderCompanies :
        /\ mode = "ingest"
        /\ Arrive(Record("mas", pn, cn, TRUE, "CEO", NULL, NULL, NoQid, NoId, NoId, NULL))

\* every order in which a MATCH can return the nodes
Orders(S) ==
    {s \in [1..Cardinality(S) -> S] : \A i, j \in 1..Cardinality(S) : i # j => s[i] # s[j]}

\* `RETURN p.qid`: MERGE_PERSON stores the qid as p.wikidata_qid, and no
\* write sets a property named qid, so the value read is null
NodeQid(n) == NoQid

\* preload_registries, persons: person_registry[slug(name)] = entry and,
\* when the qid read is not null, qid_registry[qid] = slug(name)
RECURSIVE PreloadPersons(_, _)
PreloadPersons(regs, recs) ==
    IF recs = << >> THEN regs
    ELSE LET n == Head(recs)
             s == slug(n.name)
             entry == [id |-> n.id, canonical |-> n.name, aliases |-> n.aliases,
                       qid |-> NodeQid(n)]
         IN  PreloadPersons(
                 [reg |-> DictPut(regs.reg, s, entry),
                  qreg |-> IF NodeQid(n) # NoQid THEN DictPut(regs.qreg, NodeQid(n), s)
                           ELSE regs.qreg],
                 Tail(recs))

\* preload_registries, companies: company_registry[slug(name)] = cid
RECURSIVE PreloadCompanies(_, _)
PreloadCompanies(creg, recs) ==
    IF recs = << >> THEN creg
    ELSE PreloadCompanies(DictPut(creg, slug(Head(recs).name), Head(recs).id), Tail(recs))

\* a new process: empty registries, then preload_registries from the store
preload_registries ==
    \E po \in Orders(personNodes), co \in Orders(companyNodes) :
        LET regs == PreloadPersons([reg |-> << >>, qreg |-> << >>], po)
        IN  /\ person_registry' = regs.reg
            /\ qid_registry' = regs.qreg
            /\ company_registry' = PreloadCompanies(<< >>, co)

StoreKeys ==
    [persons |-> NodeIds(personNodes), companies |-> NodeIds(companyNodes),
     roles |-> {RoleKey(r) : r \in roleEdges},
     families |-> {FamilyKey(r) : r \in familyEdges}]

\* the first pass ends; the second begins in the same process
BeginReplay ==
    /\ mode = "ingest"
    /\ log # << >>
    /\ mode' = "replay"
    /\ pos' = 1
    /\ snap' = StoreKeys
    /\ restarted' = FALSE
    /\ UNCHANGED << regVars, obsVars, storeVars, log, calls >>
    /\ UNCHANGED wdVars

\* the first pass ends, or is interrupted; the second begins in a new process
RestartAndReplay ==
    /\ mode = "ingest"
    /\ log # << >>
    /\ preload_registries
    /\ mode' = "replay"
    /\ pos' = 1
    /\ snap' = StoreKeys
    /\ restarted' = TRUE
    /\ UNCHANGED << nextUuid, obsVars, storeVars, log, calls >>
    /\ UNCHANGED wdVars

\* the next record of the same source, a second time
ReplayRecord ==
    /\ mode = "replay"
    /\ pos <= Len(log)
    /\ ApplyRecord(log[pos])
    /\ pos' = pos + 1
    /\ UNCHANGED << obsVars, mode, log, snap, restarted, calls >>
    /\ UNCHANGED wdVars

NextLoader ==
    \/ IngestNeo4jRecord
    \/ IngestWikidataPerson
    \/ IngestWikidataEdge
    \/ IngestWikidataBusiness
    \/ IngestMasRow
    \/ BeginReplay
    \/ RestartAndReplay
    \/ ReplayRecord

SpecLoader == InitLoader /\ [][NextLoader]_vars

(***************************************************************************)
(* The loader over several runs: records arrive, and at any moment the     *)
(* process may end and a new one start with preload_registries; the        *)
(* records that follow are new ones.                                       *)
(***************************************************************************)
\* a new process starts on the store the earlier ones have written
NewProcess ==
    /\ mode = "ingest"
    /\ log # << >>
    /\ ~ restarted
    /\ preload_registries
    /\ restarted' = TRUE
    /\ UNCHANGED << nextUuid, obsVars, storeVars, mode, log, pos, snap, calls >>
    /\ UNCHANGED wdVars

NextRuns ==
    \/ IngestNeo4jRecord
    \/ IngestWikidataPerson
    \/ IngestWikidataEdge
    \/ IngestWikidataBusiness
    \/ IngestMasRow
    \/ NewProcess

SpecRuns == InitLoader /\ [][NextRuns]_vars

(***************************************************************************)
(* ingest_annual: the documents of the annual-report directory, one after  *)
(* the other.  process_docs reads the entities of a document and then its  *)
(* relationships, subscripting each for the fields it needs; the caller    *)
(* wraps the whole document in try/except, so an exception ends the work   *)
(* on that document (mode "raised") and the loop goes on with the next     *)
(* file.  A field that is missing is NoName here; log holds every element  *)
(* of the documents in their order, read or not.                           *)
(*                                                                         *)
(* process_docs writes with `s.execute_write(...)`, and no `s` is bound in *)
(* ingest_annual or at module level (the other ingest functions open       *)
(* `driver.session() as s` themselves).  The first write of a document     *)
(* therefore raises NameError, after the registry call that precedes it.   *)
(***************************************************************************)
AnnualSource == << "annual_report", "report.json" >>

\* `if e["type"] == "Person"`: get_or_create_person(canonicalName,
\* canonical=canonicalName, extras=mentions); `s.execute_write` then raises
ingest_annual_person(rec) ==
    \E p \in {get_or_create_person(person_registry, qid_registry, nextUuid,
                                   rec.pn, rec.pn, {}, NoQid)} :
        /\ p.uuid <= MaxUuid + 1
        /\ person_registry' = p.reg
        /\ qid_registry' = p.qreg
        /\ nextUuid' = p.uuid
        /\ UNCHANGED << company_registry, storeVars >>

\* `elif e["type"] == "Company"`: get_or_create_company; `s.execute_write`
\* then raises
ingest_annual_company(rec) ==
    \E c \in {get_or_create_company(company_registry, nextUuid, rec.cn)} :
        /\ c.uuid <= MaxUuid + 1
        /\ company_registry' = c.creg
        /\ nextUuid' = c.uuid
        /\ UNCHANGED << person_registry, qid_registry, storeVars >>

\* a relationship of the document: the loop over the relationships is only
\* reached by a document without Person and Company entities, so
\* `src["type"] == "Person" and tgt["type"] == "Company"` is false
ingest_annual_relationship(rec) ==
    UNCHANGED << regVars, storeVars >>

\* the subscripts process_docs evaluates for the element: e["canonicalName"],
\* rel["sourceEntityId"], rel["targetEntityId"]
RaisesKeyError(rec) ==
    CASE rec.kind = "annual_person" -> rec.pn = NoName
      [] rec.kind = "annual_company" -> rec.cn = NoName
      [] rec.kind = "annual_relationship" -> rec.pn = NoName \/ rec.cn = NoName

\* the next element of the document being processed
ProcessDocs(rec) ==
    /\ Len(log) < MaxLog
    /\ log' = Append(log, rec)
    /\ IF mode = "raised"
       THEN UNCHANGED << regVars, storeVars, mode >>
       ELSE IF RaisesKeyError(rec)
       THEN /\ mode' = "raised"
            /\ UNCHANGED << regVars, storeVars >>
       ELSE CASE rec.kind = "annual_person" ->
                     ingest_annual_person(rec) /\ mode' = "raised"
              [] rec.kind = "annual_company" ->
                     ingest_annual_company(rec) /\ mode' = "raised"
              [] rec.kind = "annual_relationship" ->
                     ingest_annual_relationship(rec) /\ mode' = mode
    /\ UNCHANGED << obsVars, pos, snap, restarted, calls >>
    /\ UNCHANGED wdVars

AnnualPerson ==
    \E pn \in LoaderPersons \cup {NoName} :
        /\ mode \in {"ingest", "raised"}
        /\ ProcessDocs(Record("annual_person", pn, NoName, FALSE, NULL, NULL, NULL,
                              NoQid, NoId, NoId, NULL))

AnnualCompany ==
    \E cn \in LoaderCompanies \cup {NoName} :
        /\ mode \in {"ingest", "raised"}
        /\ ProcessDocs(Record("annual_company", NoName, cn, FALSE, NULL, NULL, NULL,
                              NoQid, NoId, NoId, NULL))

AnnualRelationship ==
    \E pn \in LoaderPersons \cup {NoName}, cn \in LoaderCompanies :
        /\ mode \in {"ingest", "raised"}
        /\ ProcessDocs(Record("annual_relationship", pn, cn, TRUE, "CEO", "2020", NULL,
                              NoQid, NoId, NoId, NULL))

\* `except Exception: print(...)`: the loop over the files goes on
NextDocument ==
    /\ mode = "raised"
    /\ mode' = "ingest"
    /\ UNCHANGED << regVars, obsVars, storeVars, log, pos, snap, restarted, calls >>
    /\ UNCHANGED wdVars

NextStreams ==
    \/ AnnualPerson
    \/ AnnualCompany
    \/ AnnualRelationship
    \/ NextDocument
    \/ IngestWikidataPerson
    \/ IngestWikidataEdge
    \/ IngestMasRow

SpecStreams == InitLoader /\ [][NextStreams]_vars

(***************************************************************************)
(* The Wikidata ETL: process_wd_full_clean_v6.py ("v6") and its            *)
(* predecessor process_wd_full_clean.py ("v0"), run again and again on the *)
(* same state file and data file, without --reset.  A run loads the two    *)
(* files, processes the items of its input one result row at a time,       *)
(* consolidates the edges, and saves the state file and then the data      *)
(* file.  A result row carries the person, the person's genderLabel and at *)
(* most one relationship column; it carries no label of the target.        *)
(* The scripts read the accumulated list `edges` only for the edges it     *)
(* holds (v6 adds their types to sets, the predecessor de-duplicates       *)
(* them), so it is kept as a set; the lists that are written out are kept  *)
(* as bags, so that an edge written twice is seen.                         *)
(***************************************************************************)
\* result rows processed over all runs
MaxRows == 3
\* runs started
MaxRuns == 2

Scripts == {"v6", "v0"}
Genders == {"male", "female", NULL}
Columns == {"spouse", "father", "mother", "child", "sibling", "relative"}

parent_set == {"is father of", "is mother of", "is parent of"}
child_edge == "is child of"

Edge(a, b, t) == [seed |-> a, rel |-> b, relType |-> t]
\* how many times the list holds e
Count(bag, e) == IF e \in DOMAIN bag THEN bag[e] ELSE 0

\* rel_map without the gender: a child's parent is always 'is parent of'
rel_map_NoGender(gender, col) ==
    CASE col = "spouse" -> << "is spouse of", "is spouse of" >>
      [] col = "father" -> << "is child of", "is father of" >>
      [] col = "mother" -> << "is child of", "is mother of" >>
      [] col = "child" -> << "is parent of", "is child of" >>
      [] col = "sibling" -> << "is sibling of", "is sibling of" >>
      [] col = "relative" -> << "is relative of", "is relative of" >>

\* rel_map of v6: col -> (fwd, rev), with the gender of the seed
rel_map(gender, col) ==
    CASE col = "spouse" -> << "is spouse of", "is spouse of" >>
      [] col = "father" -> << "is child of", "is father of" >>
      [] col = "mother" -> << "is child of", "is mother of" >>
      [] col = "child" -> << IF gender = "male" THEN "is father of"
                             ELSE IF gender = "female" THEN "is mother of"
                             ELSE "is parent of",
                             "is child of" >>
      [] col = "sibling" -> << "is sibling of", "is sibling of" >>
      [] col = "relative" -> << "is relative of", "is relative of" >>

\* rel_map of the predecessor: col -> typ
rel_map_v0(col) ==
    CASE col = "spouse" -> "SPOUSE_OF"
      [] col = "father" -> "FATHER_OF"
      [] col = "mother" -> "MOTHER_OF"
      [] col = "child" -> "CHILD_OF"
      [] col = "sibling" -> "SIBLING_OF"
      [] col = "relative" -> "RELATIVE_OF"

\* {q} when the frontier s holds q as resolved
Resolved(s, q) == IF q \in DOMAIN s /\ s[q] THEN {q} ELSE {}

\* the flag set only for an id the frontier does not hold yet
MarkSeed_IfAbsent(s, q) ==
    IF q \in DOMAIN s THEN s
    ELSE [x \in DOMAIN s \cup {q} |-> IF x = q THEN TRUE ELSE s[x]]

\* the item loop without `seen[seed_qid] = True`
MarkSeed_Never(s, q) == s

\* seen[seed_qid] = True
MarkSeed(s, q) == [x \in DOMAIN s \cup {q} |-> IF x = q THEN TRUE ELSE s[x]]

\* seen[tgt] = False, whatever seen holds
MarkTarget_Always(s, q) == [x \in DOMAIN s \cup {q} |-> IF x = q THEN FALSE ELSE s[x]]

\* if tgt['id'] not in seen: seen[tgt['id']] = False
MarkTarget(s, q) ==
    IF q \in DOMAIN s THEN s
    ELSE [x \in DOMAIN s \cup {q} |-> IF x = q THEN FALSE ELSE s[x]]

\* next_q, without the filter on the flag
next_q_All(s) == [q \in DOMAIN s |-> 1]

\* next_q = [{'qid': q} for q, d in seen.items() if not d]
next_q(s) == [q \in {x \in DOMAIN s : ~ s[x]} |-> 1]

\* _dedup_edges: a dict keyed by (seed, rel, relType) holds one edge per key
_dedup_edges(bag) == [e \in DOMAIN bag |-> 1]

\* the keys of `combined`
CombinedKeys(es) == {<< e.seed, e.rel >> : e \in es} \cup {<< e.rel, e.seed >> : e \in es}

\* combined[(a, b)]['fwd']
FwdTypes(es, a, b) == {e.relType : e \in {x \in es : x.seed = a /\ x.rel = b}}

\* selected, with the generic type tested first
Selected_GenericFirst(types) ==
    LET par == types \cap parent_set
        child == types \cap {child_edge}
    IN  IF par # {}
        THEN IF "is parent of" \in par THEN "is parent of"
             ELSE IF "is father of" \in par /\ "is mother of" \in par THEN "is parent of"
             ELSE IF "is father of" \in par THEN "is father of"
             ELSE "is mother of"
        ELSE IF child # {} THEN "is child of"
        ELSE NULL

\* selected, without the `elif child` branch
Selected_NoChild(types) ==
    LET par == types \cap parent_set
    IN  IF par # {}
        THEN IF "is father of" \in par /\ "is mother of" \in par THEN "is parent of"
             ELSE IF "is father of" \in par THEN "is father of"
             ELSE IF "is mother of" \in par THEN "is mother of"
             ELSE "is parent of"
        ELSE NULL

\* selected, without the branch for a father and a mother at once
Selected_FatherFirst(types) ==
    LET par == types \cap parent_set
        child == types \cap {child_edge}
    IN  IF par # {}
        THEN IF "is father of" \in par THEN "is father of"
             ELSE IF "is mother of" \in par THEN "is mother of"
             ELSE "is parent of"
        ELSE IF child # {} THEN "is child of"
        ELSE NULL

\* selected: the parentage type written for a pair whose forward types are
\* `types`, NULL for None
Selected(types) ==
    LET par == types \cap parent_set
        child == types \cap {child_edge}
    IN  IF par # {}
        THEN IF "is father of" \in par /\ "is mother of" \in par THEN "is parent of"
             ELSE IF "is father of" \in par THEN "is father of"
             ELSE IF "is mother of" \in par THEN "is mother of"
             ELSE "is parent of"
        ELSE IF child # {} THEN "is child of"
        ELSE NULL

\* others, left empty for a pair that has a parentage type
Others_OnlyWithoutParentage(types) ==
    IF types \cap (parent_set \cup {child_edge}) # {} THEN {}
    ELSE types

\* others, without the subtraction of parent_set
Others_KeepParents(types) == types \ {child_edge}

\* others = types - parent_set - {child_edge}
Others(types) == (types \ parent_set) \ {child_edge}

\* final_edges: for every key of `combined`, the selected type when there is
\* one, and then every type of others
FinalEdges(es) ==
    LET Appended(a, b, t) ==
            (IF Selected(FwdTypes(es, a, b)) = t THEN 1 ELSE 0)
            + (IF t \in Others(FwdTypes(es, a, b)) THEN 1 ELSE 0)
        cand == {Edge(k[1], k[2], t) : k \in CombinedKeys(es),
                                       t \in {e.relType : e \in es} \cup parent_set}
        out == {e \in cand : Appended(e.seed, e.rel, e.relType) > 0}
    IN  [e \in out |-> Appended(e.seed, e.rel, e.relType)]

\* data['edges'], loaded
Loaded(bag) == DOMAIN bag

\* a list without repetition
ListOf(es) == [e \in es |-> 1]

\* the run starts: state and data are loaded from the two files
Load ==
    /\ pc = "idle"
    /\ final_edges' = NoEdges
    /\ cur' = NoItem
    /\ rediscovered' = {}
    /\ output' = NoOutput
    /\ seeds' = {}
    /\ IF script = "v0"
       THEN \* _load_state renames an unparsable state file; _load_data has
            \* no handler: json.loads raises and the process ends
            /\ bak' = bak \cup (bad \cap {"state"})
            /\ bad' = bad \ {"state"}
            /\ IF "data" \in bad
               THEN /\ pc' = "idle"
                    /\ seen' = EmptySeen
                    /\ pool' = {}
                    /\ edges' = {}
               ELSE /\ pc' = "loop"
                    /\ seen' = stateFile
                    /\ pool' = dataPersons
                    /\ edges' = Loaded(dataEdges)
       ELSE \* _load_json renames either file when it cannot be parsed
            /\ bak' = bak \cup bad
            /\ bad' = {}
            /\ pc' = "loop"
            /\ seen' = stateFile
            /\ pool' = dataPersons
            /\ edges' = Loaded(dataEdges)
    /\ UNCHANGED << script, stateFile, dataPersons, dataEdges >>

LoadFiles ==
    /\ Load
    /\ UNCHANGED loaderVars
    /\ UNCHANGED << rtVars, peer, annual >>

\* a run with any input
StartRun ==
    /\ runs < MaxRuns
    /\ runs' = runs + 1
    /\ LoadFiles
    /\ UNCHANGED << rowsDone, todo >>

\* the next item of the input: its qid, when it has one, is resolved; when
\* it has none, the person of its first row is
NextItem(q) ==
    /\ pc = "loop"
    /\ cur' = IF q = NoQid THEN "first row of item without qid" ELSE "rows"
    /\ seen' = IF q # NoQid THEN MarkSeed(seen, q) ELSE seen
    /\ seeds' = IF q # NoQid THEN seeds \cup {q} ELSE seeds
    /\ UNCHANGED << output, bad, bak, script, pc, stateFile, dataPersons, dataEdges, pool, edges,
                    final_edges, rediscovered, rowsDone, runs >>

Item(q) ==
    /\ NextItem(q)
    /\ UNCHANGED loaderVars
    /\ UNCHANGED << rtVars, peer, annual >>

BeginItem(q) ==
    /\ Item(q)
    /\ UNCHANGED todo

\* the next result row of the item: person, genderLabel, and column col with
\* target tgt (NoQid: the row has no relationship column with a value)
Row(person, gender, col, tgt) ==
    /\ pc = "loop"
    /\ cur # NoItem
    /\ rowsDone < MaxRows
    /\ rowsDone' = rowsDone + 1
    /\ cur' = "rows"
    /\ seeds' = IF cur = "first row of item without qid" /\ person # NoQid
                THEN seeds \cup {person} ELSE seeds
    /\ \E seen1 \in {IF cur = "first row of item without qid" /\ person # NoQid
                     THEN MarkSeed(seen, person) ELSE seen} :
          IF person = NoQid
          THEN /\ seen' = seen1
               /\ UNCHANGED << pool, edges, rediscovered >>
          ELSE IF tgt = NoQid
          THEN /\ seen' = seen1
               /\ pool' = pool \cup {person}
               /\ UNCHANGED << edges, rediscovered >>
          ELSE IF script = "v6"
          THEN /\ pool' = pool \cup {person, tgt}
               /\ edges' = edges \cup {Edge(person, tgt, rel_map(gender, col)[1]),
                                         Edge(tgt, person, rel_map(gender, col)[2])}
               /\ seen' = MarkTarget(seen1, tgt)
               /\ rediscovered' = rediscovered \cup Resolved(stateFile, tgt)
          ELSE IF person = tgt
          THEN /\ seen' = seen1
               /\ pool' = pool \cup {person}
               /\ UNCHANGED << edges, rediscovered >>
          ELSE /\ pool' = pool \cup {person, tgt}
               /\ edges' = edges \cup {Edge(person, tgt, rel_map_v0(col))}
               /\ seen' = MarkTarget(seen1, tgt)
               /\ rediscovered' = rediscovered \cup Resolved(stateFile, tgt)
    /\ UNCHANGED << output, bad, bak, script, pc, stateFile, dataPersons, dataEdges, final_edges,
                    runs >>

ProcessRow(person, gender, col, tgt) ==
    /\ Row(person, gender, col, tgt)
    /\ UNCHANGED loaderVars
    /\ UNCHANGED << todo, rtVars, peer, annual >>

\* the input is exhausted: the edges to persist are computed
Consolidate ==
    /\ pc = "loop"
    /\ pc' = "save_state"
    /\ IF script = "v6"
       THEN final_edges' = _dedup_edges(FinalEdges(edges))
       ELSE final_edges' = _dedup_edges(ListOf(edges))
    /\ cur' = NoItem
    /\ UNCHANGED << output, bad, bak, script, stateFile, dataPersons, dataEdges, seen, pool, edges,
                    rediscovered, rowsDone, runs >>
    /\ UNCHANGED loaderVars
    /\ UNCHANGED << todo, seeds, rtVars, peer, annual >>

\* _save_json(STATE_FILE, state): the file is replaced in one step
SaveState ==
    /\ pc = "save_state"
    /\ pc' = "save_data"
    /\ stateFile' = seen
    /\ UNCHANGED << output, bad, bak, script, dataPersons, dataEdges, seen, pool, edges, final_edges,
                    cur, rediscovered, rowsDone, runs >>
    /\ UNCHANGED loaderVars
    /\ UNCHANGED << todo, seeds, rtVars, peer, annual >>

\* _save_json(DATA_FILE, ...): the file is replaced in one step; then the
\* 'next' list is written to stdout and the run ends
Save ==
    /\ pc = "save_data"
    /\ pc' = "idle"
    /\ dataPersons' = pool
    /\ dataEdges' = final_edges
    /\ output' = [emitted |-> TRUE, next |-> next_q(seen)]
    /\ UNCHANGED << bad, bak, script, stateFile, seen, pool, edges, final_edges, cur,
                    rediscovered, rowsDone, runs >>

SaveData ==
    /\ Save
    /\ UNCHANGED loaderVars
    /\ UNCHANGED << todo, seeds, rtVars, peer, annual >>

\* the process is killed: what it held in memory is gone
Interrupt ==
    /\ pc # "idle"
    /\ pc' = "idle"
    /\ seen' = EmptySeen
    /\ pool' = {}
    /\ edges' = {}
    /\ final_edges' = NoEdges
    /\ cur' = NoItem
    /\ rediscovered' = {}
    /\ seeds' = {}
    /\ UNCHANGED << output, bad, bak, script, stateFile, dataPersons, dataEdges, rowsDone, runs >>
    /\ UNCHANGED loaderVars
    /\ UNCHANGED << todo, rtVars, peer, annual >>

\* a file that a run has written is damaged while no run is in progress;
\* what it held cannot be read any more
Corrupt(f) ==
    /\ pc = "idle"
    /\ runs < MaxRuns
    /\ f \notin bad
    /\ f = "state" => stateFile # EmptySeen
    /\ f = "data" => dataPersons # {}
    /\ bad' = bad \cup {f}
    /\ stateFile' = IF f = "state" THEN EmptySeen ELSE stateFile
    /\ dataPersons' = IF f = "data" THEN {} ELSE dataPersons
    /\ dataEdges' = IF f = "data" THEN NoEdges ELSE dataEdges
    /\ UNCHANGED << output, bak, script, pc, seen, pool, edges, final_edges, cur,
                    rediscovered, rowsDone, runs >>
    /\ UNCHANGED loaderVars
    /\ UNCHANGED << todo, seeds, rtVars, peer, annual >>

InitWD == InitGraph /\ (\E s \in Scripts : IdleETL(s)) /\ NoRoundTrip

NextWD ==
    \/ StartRun
    \/ \E q \in Qids \cup {NoQid} : BeginItem(q)
    \/ \E person \in Qids \cup {NoQid}, gender \in Genders :
          ProcessRow(person, gender, "spouse", NoQid)
    \/ \E person \in Qids, gender \in Genders, col \in Columns, tgt \in Qids :
          ProcessRow(person, gender, col, tgt)
    \/ Consolidate
    \/ SaveState
    \/ SaveData
    \/ Interrupt

SpecWD == InitWD /\ [][NextWD]_vars

\* the same runs on files that can be damaged between two runs
NextFiles == NextWD \/ \E f \in {"state", "data"} : Corrupt(f)

SpecFiles == InitWD /\ [][NextFiles]_vars

(***************************************************************************)
(* The crawl: the script is run again and again, and the input of a run is *)
(* one item for every id of the 'next' list the run before it has written  *)
(* (any ids for the first run).  An item carries its qid and the result    *)
(* rows of the query about it; the ids the rows can name are Qids.  A run  *)
(* is sequential code over a finite input: it goes through its items,      *)
(* saves the two files and writes its output.                              *)
(***************************************************************************)
CrawlStart ==
    /\ LoadFiles
    /\ rowsDone' = 0
    /\ IF output.emitted THEN todo' = DOMAIN output.next
       ELSE todo' \in SUBSET Qids
    /\ UNCHANGED runs

CrawlItem(q) ==
    /\ q \in todo
    /\ Item(q)
    /\ todo' = todo \ {q}

CrawlRow ==
    \E person \in Qids, col \in {"spouse", "father"}, tgt \in Qids \cup {NoQid} :
        /\ cur # NoItem
        /\ ProcessRow(person, NULL, col, tgt)

CrawlConsolidate ==
    /\ todo = {}
    /\ Consolidate

NextCrawl ==
    \/ CrawlStart
    \/ \E q \in Qids : CrawlItem(q)
    \/ CrawlRow
    \/ CrawlConsolidate
    \/ SaveState
    \/ SaveData

SpecCrawl ==
    /\ InitWD
    /\ [][NextCrawl]_vars
    /\ WF_vars(CrawlStart)
    /\ WF_vars(\E q \in Qids : CrawlItem(q))
    /\ WF_vars(CrawlConsolidate)
    /\ WF_vars(SaveState)
    /\ WF_vars(SaveData)

(***************************************************************************)
(* The data file with the property values of its persons.  In memory a    *)
(* property of a person is a list of strings; _save_data (v0) and the      *)
(* packing loop (v6) write a list of one element as that element, and any  *)
(* other list as the list without repetitions.  A run with no items loads  *)
(* the file and saves it again.  A value is [list, items]: a list and its  *)
(* elements, or a scalar and the one string it is; a string is the         *)
(* sequence of its characters.                                             *)
(***************************************************************************)
\* elements of a property list
MaxVals == 2
\* edges of the in-memory list
MaxEdges == 3

Labels == {<< "A", "n" >>, << "L", "i" >>}

Scalar(s) == [list |-> FALSE, items |-> << s >>]
ListVal(l) == [list |-> TRUE, items |-> l]

\* list(dict.fromkeys(v)): the first occurrence of every element, in order
RECURSIVE Uniq(_)
Uniq(l) ==
    IF l = << >> THEN << >>
    ELSE LET r == Uniq(SubSeq(l, 1, Len(l) - 1))
             x == l[Len(l)]
         IN  IF \E i \in 1..Len(r) : r[i] = x THEN r ELSE Append(r, x)

\* the packing without `if not isinstance(v, list): v = [v]`: dict.fromkeys
\* of a string iterates over its characters
Pack_NoListGuard(v) ==
    LET l == IF v.list THEN v.items
             ELSE [i \in 1..Len(v.items[1]) |-> << v.items[1][i] >>]
        vv == Uniq(l)
    IN  IF Len(vv) = 1 THEN Scalar(vv[1]) ELSE ListVal(vv)

\* `if not isinstance(v, list): v = [v]`, `vv = list(dict.fromkeys(v))`,
\* `po[sec][k] = vv[0] if len(vv) == 1 else vv`
Pack(v) ==
    LET l == v.items
        vv == Uniq(l)
    IN  IF Len(vv) = 1 THEN Scalar(vv[1]) ELSE ListVal(vv)

\* _load_data of v0: `if not isinstance(v, list): p[fld][k] = [v]`; v6 hands
\* the loaded value to defaultdict(list, ...) as it is
LoadValue(s, v) == IF s = "v0" /\ ~ v.list THEN ListVal(v.items) ELSE v

\* the persons and the edges a run writes from what it holds in memory
SavedData(s, m) ==
    [persons |-> [q \in DOMAIN m.persons |-> Pack(m.persons[q])],
     edges |-> IF s = "v6" THEN _dedup_edges(FinalEdges(m.edges))
               ELSE _dedup_edges(_dedup_edges(ListOf(m.edges)))]

\* what a run holds in memory after loading the file
LoadedData(s, d) ==
    [persons |-> [q \in DOMAIN d.persons |-> LoadValue(s, d.persons[q])],
     edges |-> Loaded(d.edges)]

\* what a run can hold in memory when it reaches its save
ListsUpTo(n) == UNION {[1..k -> Labels] : k \in 0..n}
EdgeTypesOf(s) ==
    IF s = "v6" THEN {"is father of", "is mother of", "is child of", "is spouse of"}
    ELSE {"FATHER_OF", "MOTHER_OF", "CHILD_OF", "SPOUSE_OF"}
EdgeLists(s) ==
    {es \in SUBSET {Edge(a, b, t) : a \in {Qid(1), Qid(2)}, b \in {Qid(1), Qid(2)},
                                    t \in EdgeTypesOf(s)} :
        /\ Cardinality(es) <= MaxEdges
        /\ \A e \in es : e.seed # e.rel}
InMemory(s) ==
    {[persons |-> p, edges |-> es] :
        p \in {NoData.persons} \cup {[q \in {Qid(1)} |-> ListVal(l)] : l \in ListsUpTo(MaxVals)},
        es \in EdgeLists(s)}

\* the run saves the data file
RTSave ==
    /\ trip \in {"input", "loaded"}
    /\ disk' = SavedData(script, mem)
    /\ trip' = IF trip = "input" THEN "saved" ELSE "resaved"
    /\ UNCHANGED << mem, etlVars, peer, annual >>
    /\ UNCHANGED loaderVars

\* a later run, with no items, loads the data file
RTLoad ==
    /\ trip = "saved"
    /\ mem' = LoadedData(script, disk)
    /\ trip' = "loaded"
    /\ UNCHANGED << disk, etlVars, peer, annual >>
    /\ UNCHANGED loaderVars

InitRT ==
    /\ InitGraph
    /\ \E s \in Scripts : IdleETL(s) /\ mem \in InMemory(s)
    /\ disk = NoFile
    /\ trip = "input"

NextRT == RTSave \/ RTLoad

SpecRT == InitRT /\ [][NextRT]_vars

(***************************************************************************)
(* Claims about the registry.                                              *)
(***************************************************************************)
\* C1: once a call carrying external id q has created an entry, every later
\* call carrying q returns the id q, whatever name it carries and whatever
\* was resolved in between.
C1_AuthoritativeIdReturned ==
    (last.op = "person" /\ last.known) => last.ret = last.qid

\* C2: two calls without external id whose names have the same comparison
\* key return the same person id, whatever calls occur between them.
C2_SameKeySameId ==
    \A a \in nameIds, b \in nameIds : a[1] = b[1] => a[2] = b[2]

(***************************************************************************)
(* Claims about the store's role edges.                                    *)
(***************************************************************************)
\* C4: first-write-wins for role dates: a start or end date once stored on
\* a role edge is never replaced by a later upsert.
C4_RoleDatesFirstWriteWins ==
    [][\A r \in roleEdges : \A r2 \in roleEdges' :
          RoleKey(r2) = RoleKey(r) =>
              /\ (r.startDate # NULL => r2.startDate = r.startDate)
              /\ (r.endDate # NULL => r2.endDate = r.endDate)]_vars

\* C9: the store holds at most one role edge per (person id, company id,
\* role), whatever upserts came before and from whatever source.
C9_OneRoleEdgePerKey ==
    \A r1 \in roleEdges, r2 \in roleEdges : RoleKey(r1) = RoleKey(r2) => r1 = r2

\* C9 witness: a role edge that exists was upserted again, by the other source
C9_Witness ==
    /\ last.op = "write_role"
    /\ last.known
    /\ \E r \in roleEdges : r.reference_type = "MAS_csv" /\ r.startDate = "2020"
                            /\ r.endDate = "2021"

(***************************************************************************)
(* Claims about the loader.                                                *)
(***************************************************************************)
\* C3: ingesting the identical sequence of records a second time adds no
\* Person node, no Company node, no role edge and no family edge.
C3_SecondPassAddsNothing ==
    mode = "replay" => StoreKeys = snap

\* C10: after preload_registries, re-ingesting the mentions an earlier run
\* ingested creates no additional Person or Company node.
C10_RestartCreatesNoNode ==
    (mode = "replay" /\ restarted) =>
        /\ NodeIds(personNodes) = snap.persons
        /\ NodeIds(companyNodes) = snap.companies

(***************************************************************************)
(* Claims about the Wikidata ETL.                                          *)
(***************************************************************************)
\* C5: frontier monotonicity: once the state file maps an id to resolved =
\* true, every later state file maps it to true, whatever items and runs
\* follow (without --reset).
C5_FrontierMonotone ==
    [][\A q \in DOMAIN stateFile :
          stateFile[q] => (q \in DOMAIN stateFile' /\ stateFile'[q])]_vars

\* C5 witness: a run has saved its state after meeting, as a relationship
\* target, an id the state file already held as resolved
C5_Witness ==
    /\ pc = "save_data"
    /\ \E q \in rediscovered : q \in DOMAIN stateFile /\ stateFile[q]

\* C6: in v6 no edge has seed = rel, neither among the accumulated edges nor
\* among the consolidated edges nor in the data file.
C6_NoSelfLoop ==
    script = "v6" =>
        \A e \in edges \cup DOMAIN final_edges \cup DOMAIN dataEdges : e.seed # e.rel

\* the parentage edges the list holds for the ordered pair (a, b)
Parentage(bag, a, b) ==
    Count(bag, Edge(a, b, "is father of")) + Count(bag, Edge(a, b, "is mother of"))
    + Count(bag, Edge(a, b, "is parent of")) + Count(bag, Edge(a, b, "is child of"))

\* C7: when the accumulated edges hold both "is father of" and "is mother
\* of" for an ordered pair (a, b), the consolidated edges hold exactly one
\* parentage edge for (a, b), and it is "is parent of".
C7_FatherAndMotherBecomeParent ==
    (script = "v6" /\ pc \in {"save_state", "save_data"}) =>
        \A a \in Qids, b \in Qids :
            (/\ Edge(a, b, "is father of") \in edges
             /\ Edge(a, b, "is mother of") \in edges) =>
                /\ Count(final_edges, Edge(a, b, "is parent of")) = 1
                /\ Parentage(final_edges, a, b) = 1

\* C7 witness: the consolidation pass has run on accumulated edges that held
\* both types for a pair of two persons
C7_Witness ==
    /\ script = "v6"
    /\ pc = "save_state"
    /\ \E a \in Qids, b \in Qids :
          /\ a # b
          /\ Edge(a, b, "is father of") \in edges
          /\ Edge(a, b, "is mother of") \in edges

\* C8: for every ordered pair the data file written by v6 holds at most one
\* edge of a parentage type (father, mother, parent, child) and at most one
\* edge of each other type, and no two of its edges have the same
\* (seed, rel, relType).
C8_OneEdgePerPairAndKind ==
    script = "v6" =>
        /\ \A e \in DOMAIN dataEdges : dataEdges[e] = 1
        /\ \A a \in Qids, b \in Qids : Parentage(dataEdges, a, b) <= 1

\* C8 witness: a run has saved a data file after a pair's two conflicting
\* parentage edges were replaced by one, and the pair has an edge of
\* another type too
C8_Witness ==
    /\ script = "v6"
    /\ pc = "idle"
    /\ \E a \in Qids, b \in Qids :
          /\ a # b
          /\ Edge(a, b, "is parent of") \in DOMAIN dataEdges
          /\ Edge(a, b, "is spouse of") \in DOMAIN dataEdges
          /\ Edge(b, a, "is child of") \in DOMAIN dataEdges

(***************************************************************************)
(* Claims about the names, the matching and the provenance of the loader.  *)
(***************************************************************************)
\* C11: first-seen-wins: the name stored for a person id is never changed by
\* a later mention, in the same run or in a later one.
C11_PersonNameNeverChanges ==
    [][\A n \in personNodes : \A n2 \in personNodes' :
          n2.id = n.id => n2.name = n.name]_vars

\* C12: a get_or_create_person call without external id never returns the id
\* of an entry that was created from an external id.
C12_NameOnlyNeverAuthoritative ==
    (last.op = "person" /\ last.qid = NoQid) => last.ret \notin Qids

\* The registry keys that qualify as a match of slug s, by position, and the
\* position the claim's tie-break names: the highest ratio, and among equal
\* ratios the earliest position.
PersonHits(reg, s) ==
    {i \in 1..Len(reg) : token_set_ratio(reg[i].k, s) >= FUZZ_THRESHOLD}

CompanyHits(reg, s) ==
    {i \in 1..Len(reg) : \/ token_set_ratio(reg[i].k, s) >= FUZZ_THRESHOLD
                         \/ Levenshtein_distance(reg[i].k, s) <= LEV_DIST}

BestOf(reg, s, hits, i) ==
    \A j \in hits :
        \/ token_set_ratio(reg[j].k, s) < token_set_ratio(reg[i].k, s)
        \/ (token_set_ratio(reg[j].k, s) = token_set_ratio(reg[i].k, s) /\ i <= j)

\* C13: deterministic tie-break: when several registry entries qualify as a
\* match for a name, a call without external id returns the id of the
\* highest-scoring one, and among equal scores of the earliest-created one.
C13_HighestScoringCandidate ==
    [][/\ (calls' = calls + 1 /\ last'.op = "person" /\ last'.qid = NoQid
              /\ PersonHits(person_registry, last'.slug) # {})
          => \E i \in PersonHits(person_registry, last'.slug) :
                /\ BestOf(person_registry, last'.slug,
                          PersonHits(person_registry, last'.slug), i)
                /\ last'.ret = person_registry[i].v.id
       /\ (calls' = calls + 1 /\ last'.op = "company"
              /\ CompanyHits(company_registry, last'.slug) # {})
          => \E i \in CompanyHits(company_registry, last'.slug) :
                /\ BestOf(company_registry, last'.slug,
                          CompanyHits(company_registry, last'.slug), i)
                /\ last'.ret = company_registry[i].v]_vars

(***************************************************************************)
(* Claims about the files of the Wikidata ETL.                             *)
(***************************************************************************)
\* C14: when a run starts and the state file or the data file cannot be
\* parsed, the file is renamed aside, the run uses an empty state or data set
\* in its place and goes on to its item loop instead of ending, in either
\* script.
C14_CorruptFileSetAside ==
    [][(runs' = runs + 1 /\ bad # {})
         => /\ pc' = "loop"
            /\ bad \subseteq bak'
            /\ bad' = {}
            /\ ("state" \in bad => seen' = EmptySeen)
            /\ ("data" \in bad => (pool' = {} /\ edges' = {}))]_vars

(***************************************************************************)
(* Claims about the record streams of the loader.                          *)
(***************************************************************************)
\* C15: a record that lacks a required reference is the only one skipped:
\* every well-formed person or company record of a stream has its node in
\* the store once the loader has moved past it, whatever came before it in
\* the stream.
C15_WellFormedRecordIngested ==
    [][log' # log =>
         LET rec == log'[Len(log')]
         IN  /\ (rec.kind \in {"annual_person", "mas", "wd_person"} /\ rec.pn # NoName)
                   => \E n \in personNodes' : n.name = rec.pn \/ rec.pn \in n.aliases
             /\ (rec.kind \in {"annual_company", "mas"} /\ rec.cn # NoName)
                   => \E c \in companyNodes' : c.name = rec.cn]_vars

\* C16: load followed by save is a fixed point on saved data: a run that
\* loads a data file a run has saved, and saves it again, writes the same
\* property values and the same edges.
C16_LoadSaveFixedPoint ==
    [][(trip = "loaded" /\ trip' = "resaved") => disk' = disk]_vars

\* C16 witness: a file has been saved, loaded and saved again; it holds a
\* property as the scalar of a one-element list, and an edge
C16_Witness ==
    /\ trip = "resaved"
    /\ \E q \in DOMAIN disk.persons : ~ disk.persons[q].list
    /\ DOMAIN disk.edges # {}

(***************************************************************************)
(* Claims about the output and the frontier of the Wikidata ETL.           *)
(***************************************************************************)
\* C17: the 'next' list a run writes holds exactly the ids whose flag is
\* false in the state file that run has saved, each of them once, and no id
\* whose flag is true.
C17_NextIsPending ==
    output.emitted =>
        /\ DOMAIN output.next = {q \in DOMAIN stateFile : ~ stateFile[q]}
        /\ \A q \in DOMAIN output.next : output.next[q] = 1

\* C17 witness: a run has written a 'next' list that is not empty, while the
\* state file it saved holds a resolved id too
C17_Witness ==
    /\ output.emitted
    /\ DOMAIN output.next # {}
    /\ \E q \in DOMAIN stateFile : stateFile[q]

\* C20: every id that has seeded an item of a run's input is resolved in the
\* state file that run saves, whether or not the item had rows and whatever
\* flag the id had before.
C20_SeedsResolved ==
    (pc = "save_data" \/ output.emitted) =>
        \A q \in seeds : q \in DOMAIN stateFile /\ stateFile[q]

\* C20 witness: a run of the older script has ended; one of its seeds is
\* also the target of an edge, and so was recorded as not resolved when it
\* was met as a target first
C20_Witness ==
    /\ script = "v0"
    /\ output.emitted
    /\ \E q \in seeds : \E e \in DOMAIN dataEdges : e.rel = q /\ e.seed \notin seeds

(***************************************************************************)
(* Claims about the provenance in the store.                               *)
(***************************************************************************)
\* C19: provenance is last-write: after an upsert of a Person node, a
\* Company node, a role edge or a family edge that existed already, its
\* reference_type and reference_file are those passed to that upsert,
\* whatever earlier upserts stored.
C19_ProvenanceLastWrite ==
    /\ (last.op = "write_person" /\ last.known)
          => \A n \in personNodes :
                n.id = last.key
                => (n.reference_type = last.src[1] /\ n.reference_file = last.src[2])
    /\ (last.op = "write_company" /\ last.known)
          => \A n \in companyNodes :
                n.id = last.key
                => (n.reference_type = last.src[1] /\ n.reference_file = last.src[2])
    /\ (last.op = "write_role" /\ last.known)
          => \A r \in roleEdges :
                RoleKey(r) = last.key
                => (r.reference_type = last.src[1] /\ r.reference_file = last.src[2])
    /\ (last.op = "write_family" /\ last.known)
          => \A r \in familyEdges :
                FamilyKey(r) = last.key
                => (r.reference_type = last.src[1] /\ r.reference_file = last.src[2])

\* C19 witness: a role edge that existed has been upserted again from the
\* MAS source, and its person node still has the provenance of the other
\* source
C19_Witness ==
    /\ last.op = "write_role"
    /\ last.known
    /\ last.src = MasSource
    /\ \E r \in roleEdges : RoleKey(r) = last.key /\ r.reference_type = MasSource[1]
    /\ \E n \in personNodes : n.id = last.key[1] /\ n.reference_type = WikidataSource[1]

\* C18: convergence of the crawl: when every run is seeded with exactly the
\* ids the run before it returned as pending, and the ids the rows can name
\* are finitely many, then from some run on every id of the frontier is
\* resolved and every 'next' list written is empty, for ever.
C18_CrawlConverges ==
    <>[](/\ \A q \in DOMAIN stateFile : stateFile[q]
         /\ output.emitted => DOMAIN output.next = {})

\* C18 witness: the crawl has discovered every id and has converged: the last
\* run had no seed and wrote an empty 'next' list, and edges were collected
C18_Witness ==
    /\ output.emitted
    /\ DOMAIN output.next = {}
    /\ seeds = {}
    /\ DOMAIN stateFile = Qids
    /\ \A q \in DOMAIN stateFile : stateFile[q]
    /\ DOMAIN dataEdges # {}

(***************************************************************************)
(* get_or_create_person with every argument: a raw name, an optional       *)
(* canonical name, optional alias hints and an optional qid.  `last` also  *)
(* keeps the raw name and the hints of the call.                           *)
(***************************************************************************)
Canonicals == {NoName, AnnLee}
HintNames == {AnnLee, AnnLees}
HintChoices == {{}, {AnLe}}

CallWithHints(raw_name, canonical, extras, qid) ==
    \E r \in {get_or_create_person(person_registry, qid_registry, nextUuid,
                                   raw_name, canonical, extras, qid)} :
        /\ calls < MaxCalls
        /\ r.uuid <= MaxUuid + 1
        /\ calls' = calls + 1
        /\ person_registry' = r.reg
        /\ qid_registry' = r.qreg
        /\ nextUuid' = r.uuid
        /\ last' = [op |-> "person",
                    slug |-> slug(IF canonical # NoName THEN canonical ELSE raw_name),
                    qid |-> qid,
                    known |-> (qid # NoQid /\ DictHas(qid_registry, qid)),
                    ret |-> r.id, raw |-> raw_name, hints |-> extras,
                    entry |-> r.entry]
        /\ UNCHANGED << nameIds, company_registry, storeVars, mode, log, pos, snap,
                       restarted >>
        /\ UNCHANGED wdVars

NextHints ==
    \E n \in HintNames, c \in Canonicals, x \in HintChoices, q \in Qids \cup {NoQid} :
        CallWithHints(n, c, x, q)

SpecHints == InitLoader /\ [][NextHints]_vars

\* C21: a call with a qid that is already registered returns the existing
\* entry, whose aliases then hold the alias hints of the call, and the raw
\* name when it differs from the canonical name.
C21_HintsMergedOnKnownQid ==
    (last.op = "person" /\ last.known) =>
        /\ last.ret = last.entry.id
        /\ last.hints \subseteq last.entry.aliases
        /\ (last.raw # last.entry.canonical => last.raw \in last.entry.aliases)

\* either signal clears its threshold for some key of the registry
EitherSignal(reg, s) ==
    \E i \in 1..Len(reg) :
        \/ token_set_ratio(reg[i].k, s) >= FUZZ_THRESHOLD
        \/ Levenshtein_distance(reg[i].k, s) <= LEV_DIST

\* C22: a call without qid creates a new entry exactly when no key of the
\* registry clears the similarity threshold or lies within the edit-distance
\* bound; for persons as for companies.
C22_EitherSignalAccepts ==
    [][(calls' = calls + 1 /\ last'.qid = NoQid) =>
          /\ last'.op = "person" =>
                (EitherSignal(person_registry, last'.slug) <=> nextUuid' = nextUuid)
          /\ last'.op = "company" =>
                (EitherSignal(company_registry, last'.slug) <=> nextUuid' = nextUuid)]_vars

(***************************************************************************)
(* Claims about the edges the consolidation pass of v6 writes.             *)
(***************************************************************************)
\* C23: the consolidated edges of v6 hold no two distinct persons a, b with
\* a parent-type edge from a to b and a parent-type edge from b to a, and no
\* ordered pair with both a parent-type edge and an "is child of" edge.
C23_ContradictionFree ==
    (script = "v6" /\ pc \in {"save_state", "save_data"}) =>
        \A e \in DOMAIN final_edges, f \in DOMAIN final_edges :
            /\ ~ (/\ e.seed # e.rel
                  /\ f.seed = e.rel /\ f.rel = e.seed
                  /\ e.relType \in parent_set /\ f.relType \in parent_set)
            /\ ~ (/\ f.seed = e.seed /\ f.rel = e.rel
                  /\ e.relType \in parent_set /\ f.relType = child_edge)

\* C24: the state file comes to hold an id as resolved only in a step after
\* which the data file holds what the run has extracted for that id: the
\* person, and the edges to persist that leave it.
C24_ResolvedImpliesPersisted ==
    [][\A q \in Qids :
          (/\ Resolved(stateFile', q) # {}
           /\ Resolved(stateFile, q) = {}
           /\ q \in pool) =>
              /\ q \in dataPersons'
              /\ \A e \in DOMAIN final_edges : e.seed = q => e \in DOMAIN dataEdges']_vars

(***************************************************************************)
(* The rows of v6 on their own: runs of v6 in which `last` keeps the row   *)
(* that was processed last, its person, genderLabel, column and target.    *)
(***************************************************************************)
\* rows processed over all the runs of SpecRows
MaxSeenRows == 2
\* genderLabel values: the two the script tests, another one, and none
RowGenders == Genders \cup {"intersex"}

SeenRow(person, gender, col, tgt) ==
    /\ script = "v6"
    /\ rowsDone < MaxSeenRows
    /\ Row(person, gender, col, tgt)
    /\ last' = [op |-> "row", person |-> person, gender |-> gender, col |-> col,
                tgt |-> tgt]
    /\ UNCHANGED << regVars, nameIds, storeVars, runVars >>
    /\ UNCHANGED << todo, rtVars, peer, annual >>

InitRows == InitGraph /\ IdleETL("v6") /\ NoRoundTrip

NextRows ==
    \/ StartRun
    \/ \E q \in Qids : BeginItem(q)
    \/ \E person \in Qids, gender \in RowGenders, col \in Columns, tgt \in Qids :
          SeenRow(person, gender, col, tgt)
    \/ Consolidate
    \/ SaveState
    \/ SaveData

SpecRows == InitRows /\ [][NextRows]_vars

\* C25: a row with a child column appends the edge person -> child with
\* "is father of" for a male person, "is mother of" for a female person and
\* "is parent of" otherwise, and the edge child -> person with "is child
\* of"; a row with a father (mother) column appends person -> target with
\* "is child of" and target -> person with "is father of" ("is mother of").
C25_DirectionFromGender ==
    [][(rowsDone' = rowsDone + 1 /\ last'.col \in {"child", "father", "mother"}) =>
          LET p == last'.person
              t == last'.tgt
              g == last'.gender
              fwd == IF last'.col = "child"
                     THEN (IF g = "male" THEN "is father of"
                           ELSE IF g = "female" THEN "is mother of"
                           ELSE "is parent of")
                     ELSE "is child of"
              rev == IF last'.col = "child" THEN "is child of"
                     ELSE IF last'.col = "father" THEN "is father of"
                     ELSE "is mother of"
          IN  edges' = edges \cup {Edge(p, t, fwd), Edge(t, p, rev)}]_vars

\* C25 witness: the row of a male person with a child column has been
\* processed, and the two edges are among the accumulated edges
C25_Witness ==
    /\ last.op = "row"
    /\ last.col = "child"
    /\ last.gender = "male"
    /\ last.person # last.tgt
    /\ pc = "loop"
    /\ Edge(last.person, last.tgt, "is father of") \in edges
    /\ Edge(last.tgt, last.person, "is child of") \in edges

\* es holds, for each of its edges, an edge in the opposite direction
BothDirections(es) ==
    \A e \in es : \E f \in es : f.seed = e.rel /\ f.rel = e.seed

\* C26: in v6 the accumulated edges, the consolidated edges and the edges
\* of the data file hold, for every edge from a to b, an edge from b to a.
C26_BothDirections ==
    script = "v6" =>
        /\ BothDirections(edges)
        /\ pc \in {"save_state", "save_data"} => BothDirections(DOMAIN final_edges)
        /\ BothDirections(DOMAIN dataEdges)

\* C26 witness: a run has saved a data file that holds a parent's edge to a
\* child and the child's edge back
C26_Witness ==
    /\ script = "v6"
    /\ pc = "idle"
    /\ \E a \in Qids, b \in Qids :
          /\ a # b
          /\ Edge(a, b, "is mother of") \in DOMAIN dataEdges
          /\ Edge(b, a, "is child of") \in DOMAIN dataEdges

\* the parentage types among the consolidated edges of the ordered pair (a, b)
Kept(a, b) == {t \in parent_set \cup {child_edge} : Edge(a, b, t) \in DOMAIN final_edges}

\* C27: for every ordered pair the consolidation pass of v6 keeps "is parent
\* of" when the pair has both "is father of" and "is mother of"; the
\* specific type when the pair has one of them together with "is parent
\* of"; "is parent of" when that is the pair's only parent type; and "is
\* child of" exactly when the pair has it and has no parent type.
C27_DecisionPerPair ==
    (script = "v6" /\ pc \in {"save_state", "save_data"}) =>
        \A a \in Qids, b \in Qids :
            LET par == FwdTypes(edges, a, b) \cap parent_set
            IN  /\ {"is father of", "is mother of"} \subseteq par =>
                      Kept(a, b) = {"is parent of"}
                /\ par = {"is father of", "is parent of"} => Kept(a, b) = {"is father of"}
                /\ par = {"is mother of", "is parent of"} => Kept(a, b) = {"is mother of"}
                /\ par = {"is parent of"} => Kept(a, b) = {"is parent of"}
                /\ "is child of" \in Kept(a, b) <=>
                      (child_edge \in FwdTypes(edges, a, b) /\ par = {})
                /\ \A t \in Kept(a, b) : final_edges[Edge(a, b, t)] = 1

\* C27 witness: the pass has run on a pair of two persons that had "is
\* father of" together with "is parent of", and has kept "is father of"
C27_Witness ==
    /\ script = "v6"
    /\ pc = "save_state"
    /\ \E a \in Qids, b \in Qids :
          /\ a # b
          /\ FwdTypes(edges, a, b) \cap parent_set = {"is father of", "is parent of"}
          /\ Edge(a, b, "is father of") \in DOMAIN final_edges

\* the types that are no parentage types
OtherTypes == {"is spouse of", "is sibling of", "is relative of"}

\* C28: for every ordered pair and every type among spouse, sibling and
\* relative, the consolidated edges of v6 hold the edge, once, if and only
\* if the accumulated edges hold it, whatever parentage edges the pair has.
C28_OtherTypesUntouched ==
    (script = "v6" /\ pc \in {"save_state", "save_data"}) =>
        \A a \in Qids, b \in Qids, t \in OtherTypes :
            /\ Edge(a, b, t) \in DOMAIN final_edges <=> Edge(a, b, t) \in edges
            /\ Count(final_edges, Edge(a, b, t)) <= 1

\* C28 witness: the pass has run on a pair of two persons that had a spouse
\* edge and two conflicting parent edges, and has kept the spouse edge
C28_Witness ==
    /\ script = "v6"
    /\ pc = "save_state"
    /\ \E a \in Qids, b \in Qids :
          /\ a # b
          /\ {"is spouse of", "is father of", "is parent of"} \subseteq FwdTypes(edges, a, b)
          /\ Edge(a, b, "is spouse of") \in DOMAIN final_edges

(***************************************************************************)
(* Claims about the companies of the loader and about two loaders at once. *)
(***************************************************************************)
\* C29: first-seen-wins for companies: the name stored for a company id is
\* never changed by a later mention that resolves to the same id.
C29_CompanyNameNeverChanges ==
    [][\A c \in companyNodes : \A c2 \in companyNodes' :
          c2.id = c.id => c2.name = c.name]_vars

(***************************************************************************)
(* Two loader processes on one store.  The first process is the one whose  *)
(* registries are person_registry, qid_registry and company_registry; it   *)
(* started on the empty store.  The second starts at any time, preloads    *)
(* its own registries from the store, and from then on the two take turns  *)
(* row by row, each reading the rows of a MAS file (ingest_mas).  The      *)
(* store is shared, a registry is private to its process, and uuid4()      *)
(* never returns the same value twice.  peer.created keeps, for every id   *)
(* a process has generated, the process, the label, the name and the id.   *)
(* The two processes ingest MaxCalls rows between them.                    *)
(***************************************************************************)
\* the registries of process i
RegistriesOf(i) ==
    IF i = 1
    THEN [person_registry |-> person_registry, qid_registry |-> qid_registry,
          company_registry |-> company_registry]
    ELSE [person_registry |-> peer.person_registry, qid_registry |-> peer.qid_registry,
          company_registry |-> peer.company_registry]

\* the second process starts: main() calls preload_registries first
PeerStart ==
    /\ ~ peer.started
    /\ \E po \in Orders(personNodes), co \in Orders(companyNodes) :
          LET regs == PreloadPersons([reg |-> << >>, qreg |-> << >>], po)
          IN  peer' = [peer EXCEPT !.started = TRUE,
                                   !.person_registry = regs.reg,
                                   !.qid_registry = regs.qreg,
                                   !.company_registry = PreloadCompanies(<< >>, co)]
    /\ UNCHANGED << regVars, obsVars, storeVars, runVars >>
    /\ UNCHANGED << etlVars, rtVars, annual >>

\* process i ingests a row of its MAS file: person name pn, company name cn
PairMasRow(i, pn, cn) ==
    /\ calls < MaxCalls
    /\ i = 2 => peer.started
    /\ \E mine \in {RegistriesOf(i)} :
       \E p \in {get_or_create_person(mine.person_registry, mine.qid_registry, nextUuid,
                                      pn, NoName, {}, NoQid)} :
       \E c \in {get_or_create_company(mine.company_registry, p.uuid, cn)} :
       \E persons \in {write_person(personNodes, p.entry, MasSource[1], MasSource[2])} :
       \E companies \in {write_company(companyNodes, c.id, cn, MasSource[1], MasSource[2])} :
       \E created \in {peer.created
                       \cup (IF p.uuid # nextUuid THEN {<< i, "Person", pn, p.id >>} ELSE {})
                       \cup (IF c.uuid # p.uuid THEN {<< i, "Company", cn, c.id >>} ELSE {})} :
          /\ calls' = calls + 1
          /\ nextUuid' = c.uuid
          /\ personNodes' = persons
          /\ companyNodes' = companies
          /\ roleEdges' = write_role(persons, companies, roleEdges, p.id, c.id,
                                     "CEO", NULL, NULL, MasSource[1], MasSource[2])
          /\ IF i = 1
             THEN /\ person_registry' = p.reg
                  /\ qid_registry' = p.qreg
                  /\ company_registry' = c.creg
                  /\ peer' = [peer EXCEPT !.created = created]
             ELSE /\ peer' = [peer EXCEPT !.person_registry = p.reg,
                                          !.qid_registry = p.qreg,
                                          !.company_registry = c.creg,
                                          !.created = created]
                  /\ UNCHANGED << person_registry, qid_registry, company_registry >>
    /\ UNCHANGED << obsVars, familyEdges, mode, log, pos, snap, restarted >>
    /\ UNCHANGED << etlVars, rtVars, annual >>

NextPair ==
    \/ PeerStart
    \/ \E i \in {1, 2}, pn \in LoaderPersons, cn \in LoaderCompanies : PairMasRow(i, pn, cn)

SpecPair == InitLoader /\ [][NextPair]_vars

\* C30: when each of two processes on the same store has created an id for
\* the same name, the two ids differ and the store holds a node for each:
\* two Person nodes with that name, or two Company nodes.
C30_ConcurrentLoadersDiverge ==
    \A x \in peer.created, y \in peer.created :
        (x[1] = 1 /\ y[1] = 2 /\ x[2] = y[2] /\ x[3] = y[3]) =>
            /\ x[4] # y[4]
            /\ x[2] = "Person" =>
                  \E n1 \in personNodes, n2 \in personNodes :
                      /\ n1.id = x[4] /\ n1.name = x[3]
                      /\ n2.id = y[4] /\ n2.name = x[3]
            /\ x[2] = "Company" => {x[4], y[4]} \subseteq NodeIds(companyNodes)

\* C30 witness: the second process preloaded its registries before the
\* first had written the name, both have ingested a row with the name, and
\* the store holds two Person nodes with it
C30_Witness ==
    /\ peer.started
    /\ \E x \in peer.created, y \in peer.created :
          /\ x[1] = 1 /\ y[1] = 2
          /\ x[2] = "Person" /\ y[2] = "Person"
          /\ x[3] = AnnLee /\ y[3] = AnnLee
          /\ \E n1 \in personNodes, n2 \in personNodes :
                n1.id # n2.id /\ n1.name = AnnLee /\ n2.name = AnnLee

(***************************************************************************)
(* The runs of the ETL with the values of the persons.  Of a person the    *)
(* pool holds props['name'] and attributes['spouseLabel'], each a value    *)
(* [list, items] as above; a key the dict does not hold is the empty list  *)
(* (the dicts are defaultdict(list)).  A result row carries the person,    *)
(* the personLabel, and here the spouse column with its spouseLabel.       *)
(* mem.persons is the pool, disk.persons the persons of the data file.     *)
(* `last` keeps the row processed last, whether it raised, and the         *)
(* (person, personLabel) pairs the rows of the run have shown so far.      *)
(***************************************************************************)
NameLabels == {<< "A", "n" >>, << "L", "i" >>}
\* spouseLabel values: a label, and a substring of the other label
TargetLabels == {<< "L", "i" >>, << "A" >>}

NoValue == ListVal(<< >>)
NoProps == [name |-> NoValue, attr |-> NoValue]
NoRow == [op |-> "none", person |-> NoQid, pl |-> NoName, tgt |-> NoQid, tl |-> NoName,
          raised |-> FALSE, shown |-> {}]

\* pool[q], created when the pool does not hold q
Node(persons, q) == IF q \in DOMAIN persons THEN persons[q] ELSE NoProps

\* persons with pool[q] = n
WithNode(persons, q, n) ==
    [x \in DOMAIN persons \cup {q} |-> IF x = q THEN n ELSE persons[x]]

\* the strings a value holds
Items(v) == {v.items[i] : i \in 1..Len(v.items)}

\* a in b, for two strings
IsSubstring(a, b) ==
    \E i \in 0..(Len(b) - Len(a)) : SubSeq(b, i + 1, i + Len(a)) = a

\* `s in v`: membership in a list, substring of a string
Contains(v, s) == IF v.list THEN s \in Items(v) ELSE IsSubstring(s, v.items[1])

\* `if rel_name and rel_name not in node['props']['name']:
\*      node['props']['name'].append(rel_name)` raises AttributeError when
\* the value is a string
AppendRaises(v, s) == s # NoName /\ ~ Contains(v, s) /\ ~ v.list

AppendName(v, s) ==
    IF s = NoName \/ Contains(v, s) THEN v ELSE ListVal(Append(v.items, s))

\* v6, attributes: the same test, then the list guard, then append
AppendAttr(v, s) ==
    IF s = NoName \/ Contains(v, s) THEN v
    ELSE IF ~ v.list THEN ListVal(<< v.items[1], s >>)
    ELSE ListVal(Append(v.items, s))

\* _add_person, main: props and attributes are cleared and filled from the row
MainNode(pl, tl) ==
    [name |-> IF pl = NoName THEN NoValue ELSE ListVal(<< pl >>),
     attr |-> IF tl = NoName THEN NoValue ELSE ListVal(<< tl >>)]

\* _add_person, related node; v0 keeps no attribute of it
RelatedNode(s, n, tl) ==
    [name |-> AppendName(n.name, tl),
     attr |-> IF s = "v6" THEN AppendAttr(n.attr, tl) ELSE n.attr]

\* the pool after the row: the person, then the target of the spouse column
PoolAfterRow(s, persons, person, pl, tgt, tl) ==
    LET p1 == WithNode(persons, person, MainNode(pl, tl))
    IN  IF tgt = NoQid \/ tgt = person THEN p1
        ELSE WithNode(p1, tgt, RelatedNode(s, Node(p1, tgt), tl))

\* the row raises in _add_person of the target
RowRaises(persons, person, pl, tgt, tl) ==
    /\ tgt # NoQid
    /\ tgt # person
    /\ AppendRaises(Node(WithNode(persons, person, MainNode(pl, tl)), tgt).name, tl)

PackNode(n) == [name |-> Pack(n.name), attr |-> Pack(n.attr)]
LoadNode(s, n) == [name |-> LoadValue(s, n.name), attr |-> LoadValue(s, n.attr)]

\* what the names actions leave alone
NamesFrame == UNCHANGED << regVars, nameIds, storeVars, restarted, calls, trip, peer, annual >>

\* the run starts and loads the two files
NamesLoad ==
    /\ Load
    /\ mem' = [persons |-> [q \in DOMAIN disk.persons |-> LoadNode(script, disk.persons[q])],
               edges |-> {}]
    /\ last' = NoRow
    /\ UNCHANGED << disk, mode, todo >>
    /\ NamesFrame

NamesItem(q) ==
    /\ NextItem(q)
    /\ UNCHANGED << last, mode, mem, disk, todo >>
    /\ NamesFrame

\* a row that is processed to its end
NamesRow(person, pl, tgt, tl) ==
    /\ ~ RowRaises(mem.persons, person, pl, tgt, tl)
    /\ Row(person, NULL, "spouse", tgt)
    /\ mem' = [mem EXCEPT !.persons = PoolAfterRow(script, mem.persons, person, pl, tgt, tl)]
    /\ last' = [op |-> "row", person |-> person, pl |-> pl, tgt |-> tgt, tl |-> tl,
                raised |-> FALSE, shown |-> last.shown \cup {<< person, pl >>}]
    /\ UNCHANGED << mode, disk, todo >>
    /\ NamesFrame

\* a row that raises: the exception is not caught and the process ends
NamesRowRaises(person, pl, tgt, tl) ==
    /\ pc = "loop"
    /\ cur # NoItem
    /\ rowsDone < MaxRows
    /\ RowRaises(mem.persons, person, pl, tgt, tl)
    /\ pc' = "idle"
    /\ mode' = "raised"
    /\ seen' = EmptySeen
    /\ pool' = {}
    /\ edges' = {}
    /\ final_edges' = NoEdges
    /\ cur' = NoItem
    /\ rediscovered' = {}
    /\ seeds' = {}
    /\ rowsDone' = rowsDone + 1
    /\ mem' = NoData
    /\ last' = [op |-> "row", person |-> person, pl |-> pl, tgt |-> tgt, tl |-> tl,
                raised |-> TRUE, shown |-> last.shown \cup {<< person, pl >>}]
    /\ UNCHANGED << output, bad, bak, script, stateFile, dataPersons, dataEdges, runs,
                    disk, todo >>
    /\ NamesFrame

\* the data file is written with the packed persons
NamesSave ==
    /\ Save
    /\ disk' = [persons |-> [q \in DOMAIN mem.persons |-> PackNode(mem.persons[q])],
                edges |-> NoEdges]
    /\ UNCHANGED << last, mode, mem, todo, seeds >>
    /\ NamesFrame

NamesStart ==
    /\ runs < MaxRuns
    /\ runs' = runs + 1
    /\ NamesLoad
    /\ UNCHANGED << rowsDone, log, pos, snap >>

InitNames ==
    /\ InitGraph
    /\ \E s \in Scripts : IdleETL(s)
    /\ mem = NoData
    /\ disk = NoFile
    /\ trip = "input"

NextNames ==
    \/ NamesStart
    \/ \E q \in Qids : NamesItem(q) /\ UNCHANGED << log, pos, snap >>
    \/ \E person \in Qids, pl \in NameLabels, tgt \in Qids \cup {NoQid}, tl \in TargetLabels :
          /\ cur # NoItem
          /\ NamesRow(person, pl, tgt, IF tgt = NoQid THEN NoName ELSE tl)
          /\ UNCHANGED << log, pos, snap >>
    \/ \E person \in Qids, pl \in NameLabels, tgt \in Qids, tl \in TargetLabels :
          /\ cur # NoItem
          /\ NamesRowRaises(person, pl, tgt, tl)
          /\ UNCHANGED << log, pos, snap >>
    \/ Consolidate
    \/ SaveState
    \/ NamesSave /\ UNCHANGED << log, pos, snap >>

SpecNames == InitNames /\ [][NextNames]_vars

(***************************************************************************)
(* The same input twice: a first run on empty files with any input, whose  *)
(* items and rows `log` keeps in their order, and a second run that reads  *)
(* the log again.  snap keeps the files as the first run left them.        *)
(***************************************************************************)
Files ==
    [state |-> stateFile, persons |-> dataPersons, edges |-> dataEdges,
     values |-> disk.persons]

FirstStart ==
    /\ runs = 0
    /\ runs' = 1
    /\ NamesLoad
    /\ UNCHANGED << rowsDone, log, pos, snap >>

FirstItem(q) ==
    /\ runs = 1
    /\ Len(log) < MaxLog
    /\ NamesItem(q)
    /\ log' = Append(log, [kind |-> "item", q |-> q, person |-> NoQid, pl |-> NoName,
                           tgt |-> NoQid, tl |-> NoName])
    /\ UNCHANGED << pos, snap >>

FirstRow(person, pl, tgt, tl) ==
    /\ runs = 1
    /\ Len(log) < MaxLog
    /\ cur # NoItem
    /\ NamesRow(person, pl, tgt, tl)
    /\ log' = Append(log, [kind |-> "row", q |-> NoQid, person |-> person, pl |-> pl,
                           tgt |-> tgt, tl |-> tl])
    /\ UNCHANGED << pos, snap >>

\* the input is exhausted
TwiceConsolidate ==
    /\ runs = 1 \/ pos > Len(log)
    /\ Consolidate

TwiceSave ==
    /\ NamesSave
    /\ UNCHANGED << log, pos, snap >>

SecondStart ==
    /\ runs = 1
    /\ output.emitted
    /\ runs' = 2
    /\ NamesLoad
    /\ rowsDone' = 0
    /\ pos' = 1
    /\ snap' = Files
    /\ UNCHANGED log

AgainItem ==
    /\ runs = 2
    /\ pos <= Len(log)
    /\ log[pos].kind = "item"
    /\ NamesItem(log[pos].q)
    /\ pos' = pos + 1
    /\ UNCHANGED << log, snap >>

AgainRow ==
    /\ runs = 2
    /\ pos <= Len(log)
    /\ log[pos].kind = "row"
    /\ NamesRow(log[pos].person, log[pos].pl, log[pos].tgt, log[pos].tl)
    /\ pos' = pos + 1
    /\ UNCHANGED << log, snap >>

AgainRowRaises ==
    /\ runs = 2
    /\ pos <= Len(log)
    /\ log[pos].kind = "row"
    /\ NamesRowRaises(log[pos].person, log[pos].pl, log[pos].tgt, log[pos].tl)
    /\ pos' = pos + 1
    /\ UNCHANGED << log, snap >>

InitTwice ==
    /\ InitGraph
    /\ IdleETL("v6")
    /\ mem = NoData
    /\ disk = NoFile
    /\ trip = "input"

NextTwice ==
    \/ FirstStart
    \/ \E q \in Qids : FirstItem(q)
    \/ \E person \in Qids, pl \in NameLabels, tgt \in Qids \cup {NoQid}, tl \in TargetLabels :
          FirstRow(person, pl, tgt, IF tgt = NoQid THEN NoName ELSE tl)
    \/ TwiceConsolidate
    \/ SaveState
    \/ TwiceSave
    \/ SecondStart
    \/ AgainItem
    \/ AgainRow
    \/ AgainRowRaises

SpecTwice == InitTwice /\ [][NextTwice]_vars

(***************************************************************************)
(* main() on the annual-report directory, run after run: preload_registries *)
(* (registries and processed_annual_reports read from the store), then the *)
(* loop of ingest_annual over the files, newest first.  The directory holds *)
(* three files; their modification times, and so their order, may differ   *)
(* from run to run.  annual.past keeps what each run did with each file.    *)
(***************************************************************************)
Entity(entityId, type, canonicalName) ==
    [entityId |-> entityId, type |-> type, canonicalName |-> canonicalName]

\* file name -> the document it holds
Directory ==
    [name \in {"a.json", "b.json", "c.json"} |->
        CASE name = "a.json" ->
                 [entities |-> << Entity("e1", "Person", AnnLee),
                                  Entity("e2", "Company", AnLe) >>,
                  relationships |-> << [sourceEntityId |-> "e1", targetEntityId |-> "e2"] >>]
          [] name = "b.json" ->
                 [entities |-> << Entity("e1", "Location", AnLe) >>,
                  relationships |-> << >>]
          [] name = "c.json" ->
                 [entities |-> << Entity("e1", "Person", AnnLees),
                                  Entity("e2", "Company", NoName) >>,
                  relationships |-> << >>]]

\* --limit
Limits == {NoLimit, 0, 1}

\* `s.execute_write(...)` with a session s that is bound: the write is done
execute_write_Session(st, label, written) == [st EXCEPT ![label] = written]

\* `s.execute_write(...)` in process_docs: s is not bound, NameError
execute_write(st, label, written) == [st EXCEPT !.raised = TRUE]

\* the one element of a singleton set
Only(S) == CHOOSE x \in S : TRUE

\* one entity of process_docs, from registries and store st: the result has
\* raised = TRUE when an exception ended the document
ProcessEntity(e, st, source_file) ==
    IF e.type = "Person"
    THEN IF e.canonicalName = NoName THEN [st EXCEPT !.raised = TRUE]
         ELSE Only({execute_write(
                        [st EXCEPT !.reg = p.reg, !.qreg = p.qreg, !.uuid = p.uuid],
                        "persons",
                        write_person(st.persons, p.entry, AnnualSource[1], source_file)) :
                    p \in {get_or_create_person(st.reg, st.qreg, st.uuid, e.canonicalName,
                                                e.canonicalName, {}, NoQid)}})
    ELSE IF e.type = "Company"
    THEN IF e.canonicalName = NoName THEN [st EXCEPT !.raised = TRUE]
         ELSE Only({execute_write(
                        [st EXCEPT !.creg = c.creg, !.uuid = c.uuid],
                        "companies",
                        write_company(st.companies, c.id, e.canonicalName,
                                      AnnualSource[1], source_file)) :
                    c \in {get_or_create_company(st.creg, st.uuid, e.canonicalName)}})
    ELSE st

\* the loop over the entities of process_docs
RECURSIVE ProcessEntities(_, _, _)
ProcessEntities(es, st, source_file) ==
    IF es = << >> THEN st
    ELSE Only({IF after.raised THEN after
               ELSE ProcessEntities(Tail(es), after, source_file) :
               after \in {ProcessEntity(Head(es), st, source_file)}})

\* `ents.get(entityId)`: the entity, or << >> for None
EntsGet(es, entityId) ==
    IF \E i \in 1..Len(es) : es[i].entityId = entityId
    THEN << es[CHOOSE i \in 1..Len(es) : es[i].entityId = entityId] >>
    ELSE << >>

\* a relationship from Person entity src to Company entity tgt
ProcessRole(src, tgt, st, source_file) ==
    Only({IF p.id # c.id
          THEN execute_write(
                   [st EXCEPT !.reg = p.reg, !.qreg = p.qreg, !.creg = c.creg,
                              !.uuid = c.uuid],
                   "roles",
                   write_role(st.persons, st.companies, st.roles, p.id, c.id,
                              NULL, NULL, NULL, AnnualSource[1], source_file))
          ELSE [st EXCEPT !.reg = p.reg, !.qreg = p.qreg, !.creg = c.creg,
                          !.uuid = c.uuid] :
          p \in {get_or_create_person(st.reg, st.qreg, st.uuid, src.canonicalName,
                                      src.canonicalName, {}, NoQid)},
          c \in {get_or_create_company(
                     st.creg,
                     get_or_create_person(st.reg, st.qreg, st.uuid, src.canonicalName,
                                          src.canonicalName, {}, NoQid).uuid,
                     tgt.canonicalName)}})

\* one relationship of process_docs
ProcessRelationship(rel, es, st, source_file) ==
    IF rel.sourceEntityId = NULL \/ rel.targetEntityId = NULL
    THEN [st EXCEPT !.raised = TRUE]
    ELSE Only({IF src = << >> \/ tgt = << >> THEN st
               ELSE IF src[1].type = "Person" /\ tgt[1].type = "Company"
               THEN ProcessRole(src[1], tgt[1], st, source_file)
               ELSE st :
               src \in {EntsGet(es, rel.sourceEntityId)},
               tgt \in {EntsGet(es, rel.targetEntityId)}})

\* the loop over the relationships of process_docs
RECURSIVE ProcessRelationships(_, _, _, _)
ProcessRelationships(rels, es, st, source_file) ==
    IF rels = << >> THEN st
    ELSE Only({IF after.raised THEN after
               ELSE ProcessRelationships(Tail(rels), es, after, source_file) :
               after \in {ProcessRelationship(Head(rels), es, st, source_file)}})

\* process_docs: the entities, then the relationships
process_docs(doc, st, source_file) ==
    Only({IF after.raised THEN after
          ELSE ProcessRelationships(doc.relationships, doc.entities, after, source_file) :
          after \in {ProcessEntities(doc.entities, st, source_file)}})

\* preload_registries, the report files: reference_file of every node and of
\* every relationship whose reference_type is 'annual_report'
ProcessedReports(persons, companies, roles, families) ==
    {x.reference_file : x \in {y \in persons \cup companies \cup roles \cup families :
                                   y.reference_type = "annual_report"}}

\* main(): preload_registries, then ingest_annual sorts the files
AnnualMain(limit, order) ==
    /\ annual.files_to_process = << >>
    /\ annual.run < MaxRuns
    /\ preload_registries
    /\ annual' = [annual EXCEPT
                    !.run = @ + 1,
                    !.processed_annual_reports =
                        ProcessedReports(personNodes, companyNodes, roleEdges, familyEdges),
                    !.files_to_process = order,
                    !.processed_count = 0,
                    !.limit = limit]
    /\ UNCHANGED << nextUuid, obsVars, storeVars, runVars >>
    /\ UNCHANGED << etlVars, rtVars, peer >>

\* one turn of `for file_path in files_to_process`
AnnualFile ==
    /\ annual.files_to_process # << >>
    /\ \E name \in {Head(annual.files_to_process)} :
          IF annual.limit # NoLimit /\ annual.processed_count >= annual.limit
          THEN /\ annual' = [annual EXCEPT !.files_to_process = << >>]
               /\ UNCHANGED << regVars, storeVars >>
          ELSE IF name \in annual.processed_annual_reports
          THEN /\ annual' = [annual EXCEPT
                               !.files_to_process = Tail(@),
                               !.past = @ \cup {<< annual.run, name, "skipped" >>}]
               /\ UNCHANGED << regVars, storeVars >>
          ELSE \E r \in {process_docs(
                             Directory[name],
                             [raised |-> FALSE, reg |-> person_registry,
                              qreg |-> qid_registry, creg |-> company_registry,
                              uuid |-> nextUuid, persons |-> personNodes,
                              companies |-> companyNodes, roles |-> roleEdges],
                             name)} :
                   /\ annual' = [annual EXCEPT
                                   !.files_to_process = Tail(@),
                                   !.processed_count = IF r.raised THEN @ ELSE @ + 1,
                                   !.past = @ \cup {<< annual.run, name,
                                                      IF r.raised THEN "raised"
                                                      ELSE "processed" >>}]
                   /\ person_registry' = r.reg
                   /\ qid_registry' = r.qreg
                   /\ company_registry' = r.creg
                   /\ nextUuid' = r.uuid
                   /\ personNodes' = r.persons
                   /\ companyNodes' = r.companies
                   /\ roleEdges' = r.roles
                   /\ UNCHANGED familyEdges
    /\ UNCHANGED << obsVars, runVars >>
    /\ UNCHANGED << etlVars, rtVars, peer >>

NextAnnual ==
    \/ \E limit \in Limits, order \in Orders(DOMAIN Directory) : AnnualMain(limit, order)
    \/ AnnualFile

SpecAnnual == InitLoader /\ [][NextAnnual]_vars

(***************************************************************************)
(* sync_billionaires.py on the store the loader has written.  The loader   *)
(* writes its Person nodes first; then the rows of the Bloomberg CSV are   *)
(* upserted one by one (the batches of UNWIND are a loop over the rows).   *)
(* A property a node does not have is NULL; SET p.x = null removes p.x.    *)
(* No node of the loader has an is_new property, so REMOVE p.is_new only   *)
(* undoes the ON CREATE SET.                                               *)
(***************************************************************************)
BloombergSource == << "bloomberg_billionaires", "bloomberg_billionaires.csv" >>

\* the NetWorth column: empty, "+2B", "5M", "7", and text that is no number
RawWorths == {<< >>, << "+", "2", "B" >>, << "5", "m" >>, << "7" >>, << "x" >>}
Countries == {<< >>, << "S", "G" >>}

DigitValue(c) ==
    CASE c = "0" -> 0 [] c = "1" -> 1 [] c = "2" -> 2 [] c = "3" -> 3 [] c = "4" -> 4
      [] c = "5" -> 5 [] c = "6" -> 6 [] c = "7" -> 7 [] c = "8" -> 8 [] c = "9" -> 9

\* parse_net_worth, for a number of one digit: None for the empty string, a
\* leading "+" dropped, "B" or "M" in either case as the multiplier, and
\* None when float() raises ValueError
parse_net_worth(raw) ==
    IF raw = << >> THEN NULL
    ELSE LET s1 == IF Head(raw) = "+" THEN Tail(raw) ELSE raw
             sfx == s1[Len(s1)]
             multiplier == IF sfx \in {"B", "b"} THEN 1000000000
                           ELSE IF sfx \in {"M", "m"} THEN 1000000
                           ELSE 1
             s2 == IF sfx \in {"B", "b", "M", "m"} THEN SubSeq(s1, 1, Len(s1) - 1) ELSE s1
         IN  IF Len(s2) = 1 /\ s2[1] \in Digits THEN DigitValue(s2[1]) * multiplier
             ELSE NULL

\* `row.get("Country", "").strip() or None`
OrNone(s) == IF s = << >> THEN NULL ELSE s

\* the value of property k of node n
Prop(n, k) == IF k \in DOMAIN n THEN n[k] ELSE NULL

\* load_csv: the dict of one row
CsvRow(name, worth, country, industry, uuid) ==
    [name |-> name, netWorth |-> parse_net_worth(worth), country |-> OrNone(country),
     industry |-> OrNone(industry), id |-> PersonId(uuid), aliases |-> {},
     baseScore |-> 1, pagerank |-> 1, reference_file |-> BloombergSource[2],
     reference_type |-> BloombergSource[1], score |-> 1, wOut |-> 0]

\* ON CREATE SET
OnCreate(row) ==
    [id |-> row.id, name |-> row.name, aliases |-> row.aliases, wikidata_qid |-> NULL,
     reference_type |-> row.reference_type, reference_file |-> row.reference_file,
     netWorth |-> row.netWorth, country |-> row.country, industry |-> row.industry,
     baseScore |-> row.baseScore, pagerank |-> row.pagerank, score |-> row.score,
     wOut |-> row.wOut]

\* ON MATCH SET
OnMatch(n, row) ==
    [id |-> n.id, name |-> n.name, aliases |-> n.aliases, wikidata_qid |-> n.wikidata_qid,
     reference_type |-> n.reference_type, reference_file |-> n.reference_file,
     netWorth |-> row.netWorth, country |-> row.country, industry |-> row.industry,
     baseScore |-> Prop(n, "baseScore"), pagerank |-> Prop(n, "pagerank"),
     score |-> Prop(n, "score"), wOut |-> Prop(n, "wOut")]

\* CYPHER_UPDATE for one row: MERGE (p:Person {name: row.name})
CYPHER_UPDATE(nodes, row) ==
    IF \E n \in nodes : n.name = row.name
    THEN {IF n.name = row.name THEN OnMatch(n, row) ELSE n : n \in nodes}
    ELSE nodes \cup {OnCreate(row)}

\* the loader writes a Person node, before the sync
LoaderWritesPerson(id, name) ==
    /\ calls = 0
    /\ StoreWritePerson(id, name, MasSource)

\* one row of the CSV: load_csv builds the dict, write_batch upserts it
SyncRow(name, worth, country, industry) ==
    /\ calls < MaxCalls
    /\ calls' = calls + 1
    /\ nextUuid' = nextUuid + 1
    /\ personNodes' = CYPHER_UPDATE(personNodes,
                                   CsvRow(name, worth, country, industry, nextUuid))
    /\ last' = [op |-> "sync", slug |-> NoKey, qid |-> NoQid,
                known |-> (\E n \in personNodes : n.name = name), ret |-> NoId]
    /\ UNCHANGED << person_registry, company_registry, qid_registry, nameIds, companyNodes,
                    roleEdges, familyEdges, mode, log, pos, snap, restarted >>
    /\ UNCHANGED wdVars

NextSync ==
    \/ \E id \in StorePersons, name \in {AnnLee, AnnLees} : LoaderWritesPerson(id, name)
    \/ \E name \in {AnnLee, AnLe}, worth \in RawWorths, country \in Countries :
          SyncRow(name, worth, country, << "T", "e", "c", "h" >>)

SpecSync == InitLoader /\ [][NextSync]_vars

(***************************************************************************)
(* Claims about the values of the persons in the data file.                *)
(***************************************************************************)
\* C38: a run of v6 does not end on an exception because of what the data
\* file holds: when a person whose name the data file holds as one string is
\* the target of a row that carries another label for it, the row is
\* processed and the label is among the names of that person in the pool.
C38_ReloadedNameAccepted ==
    (/\ script = "v6"
     /\ last.op = "row"
     /\ last.tgt # NoQid
     /\ last.tgt # last.person
     /\ last.tgt \in DOMAIN disk.persons
     /\ ~ disk.persons[last.tgt].name.list
     /\ last.tl # disk.persons[last.tgt].name.items[1]) =>
        /\ ~ last.raised
        /\ pc = "loop" => last.tl \in Items(mem.persons[last.tgt].name)

\* C39: the data file a run has written holds, for the name of every person
\* of a row of that run, every personLabel the rows of the run carried for
\* that person.
C39_SeedValuesAccumulate ==
    (output.emitted /\ pc = "idle" /\ last.op = "row" /\ ~ last.raised) =>
        \A x \in last.shown :
            /\ x[1] \in DOMAIN disk.persons
            /\ x[2] \in Items(disk.persons[x[1]].name)

\* C31: the second of two runs of v6 on the same input runs to its end, and
\* the state file, the persons and the edges of the data file are after it
\* what they were after the first.
C31_SecondRunChangesNothing ==
    runs = 2 =>
        /\ mode # "raised"
        /\ (pc = "idle" /\ output.emitted) => Files = snap

\* the properties the sync may write
SyncedProps == {"netWorth", "country", "industry"}
AllProps ==
    {"id", "name", "aliases", "wikidata_qid", "reference_type", "reference_file",
     "netWorth", "country", "industry", "baseScore", "pagerank", "score", "wOut"}

\* C32: a row of the sync writes netWorth, country and industry (and the
\* stamp) of the Person nodes its name matches and nothing else: every node
\* after the row is a node from before it, with every other property as it
\* was.
C32_OnlyThreePropertiesWritten ==
    [][calls' = calls + 1 =>
          \A n2 \in personNodes' : \E n \in personNodes :
              \A k \in AllProps \ SyncedProps : Prop(n2, k) = Prop(n, k)]_vars


\* C33: alias sets only grow: over the mentions of a run and over the runs
\* that follow it, each starting with preload_registries, the aliases stored
\* on a Person node after a step contain those stored before it.
C33_AliasesOnlyGrow ==
    [][\A n \in personNodes : \A n2 \in personNodes' :
          n2.id = n.id => n.aliases \subseteq n2.aliases]_vars


\* C34: in every registry state, the canonical name of a person entry is not
\* one of that entry's own aliases.
C34_CanonicalNeverOwnAlias ==
    \A i \in 1..Len(person_registry) :
        person_registry[i].v.canonical \notin person_registry[i].v.aliases


\* what run r did with the file: "skipped", "raised", "processed", or nothing
Did(r, name, what) == << r, name, what >> \in annual.past

C36_PersistedPersonsInFrontier ==
    (pc = "idle" /\ output.emitted) => dataPersons \subseteq DOMAIN stateFile


(***************************************************************************)
(* The family facts of v6 over several runs: `log` keeps every row that    *)
(* any run has been given, and so every fact delivered so far.  The rows   *)
(* are those of person Q1 about Q2.                                        *)
(***************************************************************************)
BatchColumns == {"father", "mother", "child", "spouse"}
BatchGenders == {"male", NULL}

BatchRow(person, gender, col, tgt) ==
    /\ script = "v6"
    /\ Len(log) < MaxLog
    /\ Row(person, gender, col, tgt)
    /\ log' = Append(log, [person |-> person, gender |-> gender, col |-> col, tgt |-> tgt])
    /\ UNCHANGED << regVars, obsVars, storeVars, mode, pos, snap, restarted, calls >>
    /\ UNCHANGED << todo, rtVars, peer, annual >>

NextBatches ==
    \/ StartRun
    \/ BeginItem(Qid(1))
    \/ \E gender \in BatchGenders, col \in BatchColumns :
          BatchRow(Qid(1), gender, col, Qid(2))
    \/ Consolidate
    \/ SaveState
    \/ SaveData

SpecBatches == InitRows /\ [][NextBatches]_vars

\* the edges the rows of the log append, in any run
FactsOf(rows) ==
    UNION {{Edge(rows[i].person, rows[i].tgt, rel_map(rows[i].gender, rows[i].col)[1]),
            Edge(rows[i].tgt, rows[i].person, rel_map(rows[i].gender, rows[i].col)[2])} :
           i \in 1..Len(rows)}

\* C35: batching independence of consolidation: after a completed run, the
\* edges in the data file are those one run computes from all the facts
\* delivered so far, however the facts were split across the runs and
\* whether or not a fact was delivered again.
C35_BatchingIndependent ==
    (pc = "idle" /\ output.emitted) =>
        DOMAIN dataEdges = DOMAIN _dedup_edges(FinalEdges(FactsOf(log)))

====
